---- MODULE Spec2Model ----
(***************************************************************************)
(* Flight store of virtual-radar: the SQLite tables `flights` and           *)
(* `flight_trails` (src/server/database.js) with the operations the server  *)
(* and the API call on them.  Each prepared statement is one atomic step of *)
(* the storage engine; a JavaScript function that runs several statements   *)
(* outside db.transaction() commits each of them on its own.                *)
(*                                                                          *)
(* Storage faults: every writing operation takes a `fault` input, the       *)
(* number of the statement at which the storage engine throws (0: none).    *)
(* A statement that throws has no effect of its own.                        *)
(*                                                                          *)
(* Clock: `now` is Date.now() counted in milliseconds from the start of the *)
(* run; operations read it, the Tick action advances it.                    *)
(*                                                                          *)
(* Tables: `flights` is a set of rows (the PRIMARY KEY is enforced by the   *)
(* upsert statement, not by the representation); `flight_trails` is the     *)
(* sequence of rows in rowid order (AUTOINCREMENT gives every new row the   *)
(* largest rowid, so an insert appends).  Coordinates are in tenths of a    *)
(* degree so that they are integers.                                        *)
(***************************************************************************)
EXTENDS Integers, Sequences, FiniteSets, TLC

VARIABLES db, now, ret, lastSweep, pipeline, mock, client

vars == <<db, now, ret, lastSweep, pipeline, mock, client>>

----------------------------------------------------------------------------
(* Bounds of the model *)

\* Date.now() ranges over 0..MaxNow
MaxNow == 1
\* rows that flight_trails may hold: an upsert that would exceed it is not taken
MaxTrailRows == 3
\* maxAge arguments range over 0..MaxAge
MaxAge == 1
\* config.maxTrailPoints (256 in config.js), scaled to the model
maxTrailPoints == 2

----------------------------------------------------------------------------
(* Inputs *)

Ids == {"T1", "T2"}

\* the ids in the order ORDER BY flight_id gives them
IdsInOrder == << "T1", "T2" >>

Altitudes == {35000}

\* upstream report times (flight.timestamp)
Timestamps == {1, 2}

NULL == "NULL"

\* tests/unit/database.test.js, createTestFlight(id, overrides)
createTestFlight(id, altitude, timestamp) ==
  [ id           |-> id,
    callsign     |-> id,
    latitude     |-> 375,
    longitude    |-> -1225,
    altitude     |-> altitude,
    heading      |-> 90,
    speed        |-> 450,
    verticalRate |-> 0,
    onGround     |-> FALSE,
    squawk       |-> "1200",
    timestamp    |-> timestamp,
    source       |-> "test" ]

TestFlights ==
  { createTestFlight(id, alt, ts) :
      id \in Ids, alt \in Altitudes, ts \in Timestamps }

\* the lists handed to upsertFlights: of no, one or two flights
Batches ==
  { <<>> } \cup { << f >> : f \in TestFlights }
           \cup { << f, g >> : f \in TestFlights, g \in TestFlights }

MaxAges == 0..MaxAge

\* limit arguments: one that cuts a trail short and one that no trail exceeds
Limits == {2, MaxTrailRows}

\* `timestamp` arguments of getFlightsSince: the upstream report times of the
\* model, which are local times of the model as well
Sinces == Timestamps

Min(a, b) == IF a < b THEN a ELSE b

----------------------------------------------------------------------------
(* The database after initDatabase on a fresh file: both tables empty *)

initDatabase == [ flights |-> {}, flight_trails |-> <<>> ]

FlightIds(d) == { r.id : r \in d.flights }

----------------------------------------------------------------------------
(* Prepared statements (prepareStatements).  Each takes the database and    *)
(* returns the database after the statement.                                *)

\* the row bound to statements.upsertFlight by upsertFlight(flight)
FlightRow(flight, updatedAt) ==
  [ id            |-> flight.id,
    callsign      |-> flight.callsign,
    latitude      |-> flight.latitude,
    longitude     |-> flight.longitude,
    altitude      |-> flight.altitude,
    heading       |-> flight.heading,
    speed         |-> flight.speed,
    vertical_rate |-> IF "verticalRate" \in DOMAIN flight THEN flight.verticalRate ELSE 0,
    on_ground     |-> IF flight.onGround THEN 1 ELSE 0,
    squawk        |-> IF "squawk" \in DOMAIN flight /\ flight.squawk # ""
                      THEN flight.squawk ELSE NULL,
    timestamp     |-> flight.timestamp,
    source        |-> flight.source,
    updated_at    |-> updatedAt ]

\* (mutant) the INSERT without its ON CONFLICT clause taking effect
stmt_upsertFlight_NoConflict(d, row) ==
  [ d EXCEPT !.flights = @ \cup { row } ]

\* INSERT INTO flights ... ON CONFLICT(id) DO UPDATE SET ...
stmt_upsertFlight(d, row) ==
  [ d EXCEPT !.flights = { r \in d.flights : r.id # row.id } \cup { row } ]

\* INSERT INTO flight_trails (flight_id, latitude, longitude, altitude, timestamp)
stmt_insertTrailPoint(d, flightId, latitude, longitude, altitude, timestamp) ==
  [ d EXCEPT !.flight_trails =
      Append(@, [ flight_id |-> flightId,
                  latitude  |-> latitude,
                  longitude |-> longitude,
                  altitude  |-> altitude,
                  timestamp |-> timestamp ]) ]

\* the column list of the two SELECTs on flights (updated_at is not selected)
FlightColumns(r) ==
  [ id           |-> r.id,
    callsign     |-> r.callsign,
    latitude     |-> r.latitude,
    longitude    |-> r.longitude,
    altitude     |-> r.altitude,
    heading      |-> r.heading,
    speed        |-> r.speed,
    verticalRate |-> r.vertical_rate,
    onGround     |-> r.on_ground,
    squawk       |-> r.squawk,
    timestamp    |-> r.timestamp,
    source       |-> r.source ]

\* (mutant) the staleness filter applied to the upstream report time
stmt_getAllFlights_ByTimestamp(d, cutoff) ==
  { FlightColumns(r) : r \in { x \in d.flights : x.timestamp > cutoff } }

\* SELECT ... FROM flights WHERE updated_at > ?
stmt_getAllFlights(d, cutoff) ==
  { FlightColumns(r) : r \in { x \in d.flights : x.updated_at > cutoff } }

\* (mutant) the comparison with the given timestamp not strict
stmt_getFlightsSince_NotStrict(d, timestamp, cutoff) ==
  { FlightColumns(r) :
      r \in { x \in d.flights : x.timestamp >= timestamp /\ x.updated_at > cutoff } }

\* SELECT ... FROM flights WHERE timestamp > ? AND updated_at > ?
stmt_getFlightsSince(d, timestamp, cutoff) ==
  { FlightColumns(r) :
      r \in { x \in d.flights : x.timestamp > timestamp /\ x.updated_at > cutoff } }

\* positions (in rowid order) of the trail rows of one flight
TrailPositions(tr, flightId) ==
  { i \in 1..Len(tr) : tr[i].flight_id = flightId }

RECURSIVE OrderByTimestampDesc(_, _)
\* the orders ORDER BY timestamp DESC may produce for the rows of tr at the
\* positions P: a row of greatest timestamp first, then the rest likewise;
\* rows of equal timestamp come in an order SQL leaves open
OrderByTimestampDesc(tr, P) ==
  IF P = {} THEN { <<>> }
  ELSE LET first == { i \in P : \A j \in P : tr[i].timestamp >= tr[j].timestamp }
       IN  UNION { { << i >> \o o : o \in OrderByTimestampDesc(tr, P \ {i}) } : i \in first }

\* (mutant) the LIMIT taken from the far end of the order: the oldest rows
stmt_getFlightTrail_Oldest(d, flightId, limit, o) ==
  LET tr == d.flight_trails
      n  == Min(limit, Len(o))
  IN  [ k \in 1..n |->
          [ latitude  |-> tr[o[Len(o) - n + k]].latitude,
            longitude |-> tr[o[Len(o) - n + k]].longitude,
            altitude  |-> tr[o[Len(o) - n + k]].altitude,
            timestamp |-> tr[o[Len(o) - n + k]].timestamp ] ]

\* SELECT latitude, longitude, altitude, timestamp FROM flight_trails
\* WHERE flight_id = ? ORDER BY timestamp DESC LIMIT ?     (one result per order)
stmt_getFlightTrail(d, flightId, limit, o) ==
  LET tr == d.flight_trails
  IN  [ k \in 1..Min(limit, Len(o)) |->
          [ latitude  |-> tr[o[k]].latitude,
            longitude |-> tr[o[k]].longitude,
            altitude  |-> tr[o[k]].altitude,
            timestamp |-> tr[o[k]].timestamp ] ]

RECURSIVE OrderByFlightIdTimestampDesc(_, _, _)
\* the orders ORDER BY flight_id, timestamp DESC may produce for the trail
\* rows of the flights in `fresh`: flight by flight from the k-th id on, the
\* rows of one flight newest first
OrderByFlightIdTimestampDesc(tr, fresh, k) ==
  IF k > Len(IdsInOrder) THEN { <<>> }
  ELSE LET P == IF IdsInOrder[k] \in fresh
                THEN TrailPositions(tr, IdsInOrder[k]) ELSE {}
       IN  { o \o rest : o \in OrderByTimestampDesc(tr, P),
                         rest \in OrderByFlightIdTimestampDesc(tr, fresh, k + 1) }

\* the columns statements.getAllTrails selects, for the rows at the positions o
TrailColumns(tr, o) ==
  [ k \in 1..Len(o) |->
      [ flightId  |-> tr[o[k]].flight_id,
        latitude  |-> tr[o[k]].latitude,
        longitude |-> tr[o[k]].longitude,
        altitude  |-> tr[o[k]].altitude,
        timestamp |-> tr[o[k]].timestamp ] ]

\* (mutant) the rows of every flight that has a row in flights
stmt_getAllTrails_EveryFlight(d, cutoff) ==
  { TrailColumns(d.flight_trails, o) :
      o \in OrderByFlightIdTimestampDesc(d.flight_trails, FlightIds(d), 1) }

\* SELECT flight_id as flightId, latitude, longitude, altitude, timestamp
\* FROM flight_trails
\* WHERE flight_id IN (SELECT id FROM flights WHERE updated_at > ?)
\* ORDER BY flight_id, timestamp DESC                 (the results it may give)
stmt_getAllTrails(d, cutoff) ==
  LET fresh == { r.id : r \in { x \in d.flights : x.updated_at > cutoff } }
  IN  { TrailColumns(d.flight_trails, o) :
          o \in OrderByFlightIdTimestampDesc(d.flight_trails, fresh, 1) }

RECURSIVE KeepRows(_, _, _)
\* the rows of tr at the positions in K, in rowid order
KeepRows(tr, K, i) ==
  IF i > Len(tr) THEN <<>>
  ELSE (IF i \in K THEN << tr[i] >> ELSE <<>>) \o KeepRows(tr, K, i + 1)

\* (mutant) the delete without the cascade to flight_trails
stmt_pruneOldFlights_NoCascade(d, cutoff) ==
  LET gone == { r \in d.flights : r.updated_at < cutoff }
  IN  [ db      |-> [ d EXCEPT !.flights = @ \ gone ],
        changes |-> Cardinality(gone) ]

\* (mutant) `changes` counting the rows the statement left in flights
stmt_pruneOldFlights_CountsKept(d, cutoff) ==
  LET gone == { r \in d.flights : r.updated_at < cutoff }
      kept == d.flights \ gone
      ids  == { r.id : r \in kept }
  IN  [ db      |-> [ flights       |-> kept,
                      flight_trails |->
                        KeepRows(d.flight_trails,
                                 { i \in 1..Len(d.flight_trails) :
                                     d.flight_trails[i].flight_id \in ids }, 1) ],
        changes |-> Cardinality(kept) ]

\* DELETE FROM flights WHERE updated_at < ?
\* flight_trails.flight_id REFERENCES flights(id) ON DELETE CASCADE: the trail
\* rows of a deleted flight go with it, in the same statement (better-sqlite3
\* builds SQLite with foreign keys enforced by default).
\* `changes` is the number of rows of flights the statement deleted.
stmt_pruneOldFlights(d, cutoff) ==
  LET gone == { r \in d.flights : r.updated_at < cutoff }
      kept == d.flights \ gone
      ids  == { r.id : r \in kept }
      tr   == d.flight_trails
  IN  [ db      |-> [ flights       |-> kept,
                      flight_trails |-> KeepRows(tr, { i \in 1..Len(tr) :
                                                         tr[i].flight_id \in ids }, 1) ],
        changes |-> Cardinality(gone) ]

\* DELETE FROM flight_trails WHERE flight_id NOT IN (SELECT id FROM flights)
stmt_pruneOldTrails(d) ==
  LET tr == d.flight_trails
  IN  [ d EXCEPT !.flight_trails =
          KeepRows(tr, { i \in 1..Len(tr) : tr[i].flight_id \in FlightIds(d) }, 1) ]

\* flight_id values present in flight_trails
TrailFlightIds(tr) == { tr[i].flight_id : i \in 1..Len(tr) }

\* (mutant) rows numbered by descending rowid, newest insert first
RowNumbers_ByRowid(tr) ==
  { [ i \in 1..Len(tr) |->
        Cardinality({ j \in TrailPositions(tr, tr[i].flight_id) : j >= i }) ] }

\* the numberings ROW_NUMBER() OVER (PARTITION BY flight_id ORDER BY timestamp DESC)
\* may produce: per flight_id one of the orders by descending timestamp, a row's
\* number being its place in the order of its partition
RowNumbers(tr) ==
  LET fids   == TrailFlightIds(tr)
      orders == UNION { OrderByTimestampDesc(tr, TrailPositions(tr, fid)) : fid \in fids }
      picks  == { f \in [fids -> orders] :
                    \A fid \in fids :
                      f[fid] \in OrderByTimestampDesc(tr, TrailPositions(tr, fid)) }
  IN  { [ i \in 1..Len(tr) |->
            LET o == f[tr[i].flight_id]
            IN  CHOOSE k \in DOMAIN o : o[k] = i ] : f \in picks }

\* DELETE FROM flight_trails WHERE id NOT IN
\*   (SELECT id FROM (SELECT id, ROW_NUMBER() ... as rn FROM flight_trails) WHERE rn <= ?)
stmt_pruneExcessTrails(d, rn, n) ==
  [ d EXCEPT !.flight_trails = KeepRows(@, { i \in DOMAIN rn : rn[i] <= n }, 1) ]

\* (mutant) the counts taken over the most recently upserted flights only
stmt_getStats_NewestOnly(d) ==
  LET newest == { r \in d.flights : \A x \in d.flights : r.updated_at >= x.updated_at }
  IN  [ flightCount     |-> Cardinality(newest),
        trailPointCount |->
          Cardinality({ i \in 1..Len(d.flight_trails) :
                          d.flight_trails[i].flight_id \in { r.id : r \in newest } }) ]

\* SELECT (SELECT COUNT(*) FROM flights), (SELECT COUNT(*) FROM flight_trails)
stmt_getStats(d) ==
  [ flightCount     |-> Cardinality(d.flights),
    trailPointCount |-> Len(d.flight_trails) ]

----------------------------------------------------------------------------
(* Functions of database.js.  A writing function returns the database it    *)
(* leaves behind and whether it threw; `fault` is the number of the         *)
(* statement at which the storage engine throws (0: none).                  *)

\* (mutant) the trail point written only when the flight is new
upsertFlight_TrailOnInsertOnly(d, flight, clock, fault) ==
  IF fault = 1 THEN [ db |-> d, threw |-> TRUE ]
  ELSE LET d1 == stmt_upsertFlight(d, FlightRow(flight, clock))
       IN  IF fault = 2 THEN [ db |-> d1, threw |-> TRUE ]
           ELSE [ db    |-> IF flight.id \in FlightIds(d) THEN d1
                            ELSE stmt_insertTrailPoint(d1, flight.id, flight.latitude,
                                   flight.longitude, flight.altitude, flight.timestamp),
                  threw |-> FALSE ]

\* (mutant) staleness as a write-time deletion: the upsert first deletes the
\* flights that were last upserted before the present millisecond
upsertFlight_DeletesStale(d, flight, clock, fault) ==
  IF fault = 1 THEN [ db |-> d, threw |-> TRUE ]
  ELSE LET d0 == stmt_pruneOldFlights(d, clock).db
           d1 == stmt_upsertFlight(d0, FlightRow(flight, clock))
       IN  IF fault = 2 THEN [ db |-> d1, threw |-> TRUE ]
           ELSE [ db    |-> stmt_insertTrailPoint(d1, flight.id, flight.latitude,
                              flight.longitude, flight.altitude, flight.timestamp),
                  threw |-> FALSE ]

\* upsertFlight(flight): two statements, each committed on its own
upsertFlight(d, flight, clock, fault) ==
  IF fault = 1 THEN [ db |-> d, threw |-> TRUE ]
  ELSE LET d1 == stmt_upsertFlight(d, FlightRow(flight, clock))
       IN  IF fault = 2 THEN [ db |-> d1, threw |-> TRUE ]
           ELSE [ db    |-> stmt_insertTrailPoint(d1, flight.id, flight.latitude,
                              flight.longitude, flight.altitude, flight.timestamp),
                  threw |-> FALSE ]

RECURSIVE upsertEach_SkipsRepeatedId(_, _, _, _, _)
\* (mutant) the loop passing over an element whose id came earlier in the list
upsertEach_SkipsRepeatedId(d, flightList, i, clock, fault) ==
  IF i > Len(flightList) THEN [ db |-> d, threw |-> FALSE ]
  ELSE IF \E j \in 1..(i - 1) : flightList[j].id = flightList[i].id
       THEN upsertEach_SkipsRepeatedId(d, flightList, i + 1, clock, fault)
       ELSE LET local == IF fault = 2 * i - 1 THEN 1 ELSE IF fault = 2 * i THEN 2 ELSE 0
                r     == upsertFlight(d, flightList[i], clock, local)
            IN  IF r.threw THEN r
                ELSE upsertEach_SkipsRepeatedId(r.db, flightList, i + 1, clock, fault)

RECURSIVE upsertEach(_, _, _, _, _)
\* for (const flight of flightList) upsertFlight(flight);  from element i on.
\* Statements are numbered through the whole list: element i runs
\* statements 2i-1 and 2i.
upsertEach(d, flightList, i, clock, fault) ==
  IF i > Len(flightList) THEN [ db |-> d, threw |-> FALSE ]
  ELSE LET local == IF fault = 2 * i - 1 THEN 1 ELSE IF fault = 2 * i THEN 2 ELSE 0
           r     == upsertFlight(d, flightList[i], clock, local)
       IN  IF r.threw THEN r ELSE upsertEach(r.db, flightList, i + 1, clock, fault)

\* (mutant) no ROLLBACK: what fn wrote before it threw stays
transaction_NoRollback(d, r) == r

\* db.transaction(fn): BEGIN, fn, COMMIT; ROLLBACK when fn throws.
\* d is the database at BEGIN, r what fn left behind.
transaction(d, r) ==
  IF r.threw THEN [ db |-> d, threw |-> TRUE ] ELSE r

\* upsertFlights(flights): the loop inside one transaction; returns flights.length
upsertFlights(d, flights, clock, fault) ==
  LET r == transaction(d, upsertEach(d, flights, 1, clock, fault))
  IN  [ db |-> r.db, threw |-> r.threw, val |-> Len(flights) ]

\* getAllFlights(maxAge)
getAllFlights(d, clock, maxAge) == stmt_getAllFlights(d, clock - maxAge)

\* getFlightsSince(timestamp, maxAge)
getFlightsSince(d, clock, timestamp, maxAge) ==
  stmt_getFlightsSince(d, timestamp, clock - maxAge)

RECURSIVE Reverse(_)
\* Array.prototype.reverse
Reverse(s) == IF s = <<>> THEN <<>> ELSE Append(Reverse(Tail(s)), Head(s))

\* (mutant) the rows returned as selected, newest first
getFlightTrail_NoReverse(d, flightId, limit) ==
  { stmt_getFlightTrail(d, flightId, limit, o) :
      o \in OrderByTimestampDesc(d.flight_trails,
                                 TrailPositions(d.flight_trails, flightId)) }

\* getFlightTrail(flightId, limit): the results it may return
getFlightTrail(d, flightId, limit) ==
  { Reverse(stmt_getFlightTrail(d, flightId, limit, o)) :
      o \in OrderByTimestampDesc(d.flight_trails,
                                 TrailPositions(d.flight_trails, flightId)) }

RECURSIVE GroupByFlight(_, _, _, _)
\* the first loop of getAllTrails from the i-th row on: a flight gets its key
\* at its first row, and a point is pushed while the flight's array holds
\* fewer than maxPoints
GroupByFlight(rawTrails, i, trailsByFlight, maxPoints) ==
  IF i > Len(rawTrails) THEN trailsByFlight
  ELSE LET point == rawTrails[i]
           keyed == IF point.flightId \in DOMAIN trailsByFlight
                    THEN trailsByFlight
                    ELSE trailsByFlight @@ (point.flightId :> <<>>)
           pushed == IF Len(keyed[point.flightId]) < maxPoints
                     THEN [ keyed EXCEPT ![point.flightId] =
                              Append(@, [ latitude  |-> point.latitude,
                                          longitude |-> point.longitude,
                                          altitude  |-> point.altitude,
                                          timestamp |-> point.timestamp ]) ]
                     ELSE keyed
       IN  GroupByFlight(rawTrails, i + 1, pushed, maxPoints)

\* getAllTrails(maxAge, maxPoints): the objects it may return, each a function
\* from the flight ids that are its keys to their trails
getAllTrails(d, clock, maxAge, maxPoints) ==
  { LET trailsByFlight == GroupByFlight(rawTrails, 1, [ id \in {} |-> <<>> ], maxPoints)
    IN  [ flightId \in DOMAIN trailsByFlight |-> Reverse(trailsByFlight[flightId]) ] :
      rawTrails \in stmt_getAllTrails(d, clock - maxAge) }

\* (mutant) the cutoff applied one millisecond early: a flight whose age
\* equals maxAge is deleted too
pruneOldData_CutoffOffByOne(d, clock, maxAge, fault) ==
  LET cutoff == clock - maxAge + 1
  IN  IF fault = 1 THEN { [ db |-> d, threw |-> TRUE ] }
      ELSE LET flightResult == stmt_pruneOldFlights(d, cutoff)
               d1           == flightResult.db
           IN  IF fault = 2 THEN { [ db |-> d1, threw |-> TRUE ] }
               ELSE LET d2 == stmt_pruneOldTrails(d1)
                    IN  IF fault = 3 THEN { [ db |-> d2, threw |-> TRUE ] }
                        ELSE { [ db    |-> stmt_pruneExcessTrails(d2, rn, maxTrailPoints),
                                 threw |-> FALSE,
                                 val   |-> [ prunedFlights |-> flightResult.changes ] ] :
                               rn \in RowNumbers(d2.flight_trails) }

\* pruneOldData(maxAge): three statements, each committed on its own.
\* The outcomes it may have: one per numbering the third statement's
\* subquery may produce.
pruneOldData(d, clock, maxAge, fault) ==
  LET cutoff == clock - maxAge
  IN  IF fault = 1 THEN { [ db |-> d, threw |-> TRUE ] }
      ELSE LET flightResult == stmt_pruneOldFlights(d, cutoff)
               d1           == flightResult.db
           IN  IF fault = 2 THEN { [ db |-> d1, threw |-> TRUE ] }
               ELSE LET d2 == stmt_pruneOldTrails(d1)
                    IN  IF fault = 3 THEN { [ db |-> d2, threw |-> TRUE ] }
                        ELSE { [ db    |-> stmt_pruneExcessTrails(d2, rn, maxTrailPoints),
                                 threw |-> FALSE,
                                 val   |-> [ prunedFlights |-> flightResult.changes ] ] :
                               rn \in RowNumbers(d2.flight_trails) }

\* getStats()
getStats(d) == stmt_getStats(d)

----------------------------------------------------------------------------
(* JavaScript values of the normalizer (src/server/faa-fetcher.js).  A      *)
(* value carries its type; a string is the sequence of its characters; an   *)
(* array holds the sequence of its elements (element k of JavaScript is     *)
(* element k + 1 here); an object holds the function from its property      *)
(* names to their values.                                                   *)

JsUndefined == [ t |-> "undefined" ]
JsNull == [ t |-> "null" ]
JsNum(n) == [ t |-> "number", n |-> n ]
JsStr(s) == [ t |-> "string", s |-> s ]
JsBool(b) == [ t |-> "boolean", b |-> b ]
JsArray(a) == [ t |-> "array", a |-> a ]
JsObject(o) == [ t |-> "object", o |-> o ]

\* ToBoolean: what `!v`, `v ? :` and `v || w` test
Truthy(v) ==
  CASE v.t = "undefined" -> FALSE
    [] v.t = "null"      -> FALSE
    [] v.t = "number"    -> v.n # 0
    [] v.t = "string"    -> v.s # <<>>
    [] v.t = "boolean"   -> v.b
    [] OTHER             -> TRUE

\* v || w
Or(v, w) == IF Truthy(v) THEN v ELSE w

\* v[k] of a value that is neither null nor undefined: an element of an array
\* that has it, undefined otherwise
Index(v, k) ==
  IF v.t = "array" /\ k + 1 \in 1..Len(v.a) THEN v.a[k + 1] ELSE JsUndefined

\* v.name of a value that is neither null nor undefined: a property of an
\* object that has it, undefined otherwise
Prop(v, name) ==
  IF v.t = "object" /\ name \in DOMAIN v.o THEN v.o[name] ELSE JsUndefined

\* v?.name
OptionalProp(v, name) ==
  IF v.t \in { "undefined", "null" } THEN JsUndefined ELSE Prop(v, name)

RECURSIVE TrimStart(_)
\* String.prototype.trimStart, the white space of the model being " "
TrimStart(s) == IF s # <<>> /\ Head(s) = " " THEN TrimStart(Tail(s)) ELSE s

\* String.prototype.trim
Trim(s) == Reverse(TrimStart(Reverse(TrimStart(s))))

\* (mutant) the product cut down to an integer instead of rounded
MathRound_RoundingDown(n, num, den) ==
  n * (num \div den) + (n * (num % den)) \div den

\* Math.round(n * num / den) for an integer n: the nearest integer, a half
\* rounded towards plus infinity  (\div rounds down).  The whole part of
\* num / den is multiplied apart so that the products stay small.
MathRound(n, num, den) ==
  n * (num \div den) + (2 * n * (num % den) + den) \div (2 * den)

\* what a call of a normalizer function comes to
ReturnValue(v) == [ threw |-> FALSE, val |-> v ]
Throw(name) == [ threw |-> TRUE, error |-> name ]

\* Math.round(v * num / den) of a number v (the inputs of the model hold
\* numbers, null or nothing where the code multiplies)
MathRoundOf(v, num, den) == JsNum(MathRound(v.n, num, den))

\* normalizeOpenSkyFlight(state)
normalizeOpenSkyFlight(state, clock) ==
  IF ~Truthy(state) \/ ~Truthy(Index(state, 0)) THEN ReturnValue(JsNull)
  ELSE LET icao24 == Index(state, 0)
           named  == Or(Index(state, 1), JsStr(<<>>))
       IN  IF named.t # "string" THEN Throw("TypeError")   \* .trim is not a function
           ELSE
             LET callsign     == JsStr(Trim(named.s))
                 longitude    == Index(state, 5)
                 latitude     == Index(state, 6)
                 altitude     == Or(Or(Index(state, 7), Index(state, 13)), JsNum(0))
                 onGround     == Index(state, 8)
                 velocity     == Index(state, 9)
                 heading      == Index(state, 10)
                 verticalRate == Index(state, 11)
                 squawk       == Index(state, 14)
             IN  IF longitude = JsNull \/ latitude = JsNull THEN ReturnValue(JsNull)
                 ELSE ReturnValue(
                   [ id           |-> icao24,
                     callsign     |-> Or(callsign, icao24),
                     latitude     |-> latitude,
                     longitude    |-> longitude,
                     altitude     |-> MathRoundOf(altitude, 328084, 100000),
                     heading      |-> Or(heading, JsNum(0)),
                     speed        |-> IF Truthy(velocity)
                                      THEN MathRoundOf(velocity, 1944, 1000)
                                      ELSE JsNum(0),
                     verticalRate |-> IF Truthy(verticalRate)
                                      THEN MathRoundOf(verticalRate, 19685, 100)
                                      ELSE JsNum(0),
                     onGround     |-> onGround,
                     squawk       |-> squawk,
                     timestamp    |-> JsNum(clock),
                     source       |-> JsStr(<< "o", "p", "e", "n", "s", "k", "y" >>) ])

\* normalizeFaaFlight(data): reading a property of null or undefined throws
normalizeFaaFlight(data, clock) ==
  IF data.t \in { "undefined", "null" } THEN Throw("TypeError")
  ELSE ReturnValue(
    [ id           |-> Or(Prop(data, "aircraftId"), Prop(data, "icaoId")),
      callsign     |-> Or(Prop(data, "callsign"), Prop(data, "flightId")),
      latitude     |-> Or(Prop(data, "latitude"),
                          OptionalProp(Prop(data, "position"), "lat")),
      longitude    |-> Or(Prop(data, "longitude"),
                          OptionalProp(Prop(data, "position"), "lon")),
      altitude     |-> Prop(data, "altitude"),
      heading      |-> Or(Prop(data, "heading"), Prop(data, "track")),
      speed        |-> Prop(data, "groundSpeed"),
      verticalRate |-> Or(Prop(data, "verticalSpeed"), JsNum(0)),
      onGround     |-> Or(Prop(data, "onGround"), JsBool(FALSE)),
      squawk       |-> Prop(data, "squawk"),
      timestamp    |-> JsNum(clock),
      source       |-> JsStr(<< "f", "a", "a" >>) ])

\* (mutant) a source that is not recognized treated as nothing to normalize
normalizeFlightData_NullForUnknown(rawFlight, source, clock) ==
  IF source = "opensky" THEN normalizeOpenSkyFlight(rawFlight, clock)
  ELSE IF source = "faa" THEN normalizeFaaFlight(rawFlight, clock)
  ELSE ReturnValue(JsNull)

\* normalizeFlightData(rawFlight, source)
normalizeFlightData(rawFlight, source, clock) ==
  IF source = "opensky" THEN normalizeOpenSkyFlight(rawFlight, clock)
  ELSE IF source = "faa" THEN normalizeFaaFlight(rawFlight, clock)
  ELSE Throw("Unknown data source")

\* the state vector of tests/integration/api.test.js ('should normalize valid
\* OpenSky state vector'), coordinates in tenths of a degree
stateVector ==
  JsArray(<< JsStr(<< "a", "b", "c", "1", "2", "3" >>),       \* icao24
             JsStr(<< "U", "A", "L", "1", "2", "3", " " >>),  \* callsign
             JsStr(<< "U", "S" >>),                           \* origin_country
             JsNum(1699),                                     \* time_position
             JsNum(1699),                                     \* last_contact
             JsNum(-1225),                                    \* longitude
             JsNum(375),                                      \* latitude
             JsNum(10000),                                    \* baro_altitude
             JsBool(FALSE),                                   \* on_ground
             JsNum(250),                                      \* velocity
             JsNum(45),                                       \* true_track
             JsNum(5),                                        \* vertical_rate
             JsNull,                                          \* sensors
             JsNum(10050),                                    \* geo_altitude
             JsStr(<< "1", "2", "0", "0" >>),                 \* squawk
             JsBool(FALSE),                                   \* spi
             JsNum(0) >>)                                     \* position_source

\* the array v with element k replaced by x
WithElement(v, k, x) == JsArray([ v.a EXCEPT ![k + 1] = x ])

\* the first n elements of the array v: a state vector cut short
Truncated(v, n) == JsArray(SubSeq(v.a, 1, n))

\* state vectors: the test's, and the test's with the identifier, the
\* callsign, the coordinates, the altitudes or the speeds replaced, or cut short
OpenSkyRaws ==
  { stateVector }
  \cup { WithElement(stateVector, 0, x) : x \in { JsStr(<<>>), JsNull, JsNum(0) } }
  \cup { WithElement(stateVector, 1, x) :
           x \in { JsStr(<<>>), JsStr(<< " ", " " >>), JsStr(<< " ", "U", " " >>),
                   JsNull, JsNum(123) } }
  \cup { WithElement(WithElement(stateVector, 5, lon), 6, lat) :
           lon \in { JsNum(-1225), JsNum(0), JsNull },
           lat \in { JsNum(375), JsNum(0), JsNull } }
  \cup { WithElement(WithElement(stateVector, 7, baro), 13, geo) :
           baro \in { JsNum(10000), JsNum(0), JsNull },
           geo \in { JsNum(5000), JsNum(0), JsNull } }
  \cup { WithElement(WithElement(stateVector, 9, velocity), 11, verticalRate) :
           velocity \in { JsNum(250), JsNum(0), JsNull },
           verticalRate \in { JsNum(5), JsNum(-5), JsNum(0), JsNull } }
  \cup { Truncated(stateVector, n) : n \in { 0, 1, 2, 6, 7 } }

\* a record of the shape normalizeFaaFlight reads
faaFlight ==
  JsObject([ aircraftId    |-> JsStr(<< "N", "1" >>),
             callsign      |-> JsStr(<< "U", "A", "L" >>),
             latitude      |-> JsNum(375),
             longitude     |-> JsNum(-1225),
             altitude      |-> JsNum(35000),
             heading       |-> JsNum(90),
             groundSpeed   |-> JsNum(450),
             verticalSpeed |-> JsNum(0),
             onGround      |-> JsBool(FALSE),
             squawk        |-> JsStr(<< "1", "2", "0", "0" >>) ])

\* the object v without the properties in `names`
Without(v, names) == JsObject([ n \in DOMAIN v.o \ names |-> v.o[n] ])

\* the object v with property `name` set to x
WithProp(v, name, x) ==
  JsObject([ n \in DOMAIN v.o \cup { name } |-> IF n = name THEN x ELSE v.o[n] ])

\* FAA records: the full one, the empty object, and the full one with the
\* identifier or the position given the other way, or missing, or with the
\* callsign missing or padded
FaaRaws ==
  LET noId  == Without(faaFlight, { "aircraftId" })
      noPos == Without(faaFlight, { "latitude", "longitude" })
  IN  { faaFlight,
        JsObject([ n \in {} |-> JsNull ]),
        noId,
        WithProp(noId, "icaoId", JsStr(<< "a", "1" >>)),
        noPos,
        WithProp(noPos, "position", JsNull),
        WithProp(noPos, "position",
                 JsObject([ lat |-> JsNum(375), lon |-> JsNum(-1225) ])),
        WithProp(faaFlight, "latitude", JsNum(0)),
        WithProp(faaFlight, "latitude", JsNull),
        Without(faaFlight, { "callsign" }),
        WithProp(faaFlight, "callsign", JsStr(<< " ", "U", " " >>)) }

\* what normalizeFlightData is given as rawFlight
RawFlights == { JsNull, JsUndefined } \cup OpenSkyRaws \cup FaaRaws

\* what normalizeFlightData is given as source: the two it recognizes, the
\* third value of config.dataSource, and others
Sources == { "opensky", "faa", "mock", "unknown", "" }

----------------------------------------------------------------------------
(* The ingestion pipeline (src/server/index.js, src/server/faa-fetcher.js): *)
(* what a tick does once the upstream API has answered.  A response is      *)
(* whether the HTTP exchange succeeded and, when it did, the value of the   *)
(* body's list of records (data.states, data.flights).                      *)

\* config.maxFlightAge (five minutes in config.js), scaled to the model: the
\* default maxAge of the reads and of the sweep
maxFlightAge == MaxAge

\* the first ms of the pipeline's clock beyond the bound of the direct calls:
\* a flight has to be upserted, and more than maxFlightAge has to pass, before
\* a tick finds it stale
MaxIngestNow == MaxNow + 1

\* ticks started, at most
MaxTicks == 3

RECURSIVE Join(_)
\* the text of a string of the normalizer, as it is bound to a statement
Join(s) == IF s = <<>> THEN "" ELSE Head(s) \o Join(Tail(s))

\* what better-sqlite3 binds: numbers, strings, bigints, buffers and null; it
\* throws a TypeError for anything else (undefined, booleans, objects)
Bindable(v) == v.t \in { "number", "string", "null" }

\* the SQL value bound for a bindable JavaScript value
SqlValue(v) ==
  IF v.t = "number" THEN v.n ELSE IF v.t = "string" THEN Join(v.s) ELSE NULL

\* the columns of flights declared NOT NULL that upsertFlight binds as the
\* flight holds them (id goes into flight_trails.flight_id, NOT NULL too)
NotNullColumns == { "id", "callsign", "latitude", "longitude", "altitude",
                    "heading", "speed", "timestamp", "source" }

\* a normalized flight the two statements of upsertFlight accept: each of
\* these values can be bound and none is NULL
Storable(flight) ==
  \A c \in NotNullColumns : Bindable(flight[c]) /\ flight[c] # JsNull

\* the parameters upsertFlight binds for a normalized flight
\* (verticalRate || 0, onGround ? 1 : 0 and squawk || null are FlightRow's)
FlightOf(flight) ==
  [ id           |-> SqlValue(flight.id),
    callsign     |-> SqlValue(flight.callsign),
    latitude     |-> SqlValue(flight.latitude),
    longitude    |-> SqlValue(flight.longitude),
    altitude     |-> SqlValue(flight.altitude),
    heading      |-> SqlValue(flight.heading),
    speed        |-> SqlValue(flight.speed),
    verticalRate |-> IF Truthy(flight.verticalRate)
                     THEN SqlValue(flight.verticalRate) ELSE 0,
    onGround     |-> Truthy(flight.onGround),
    squawk       |-> IF Truthy(flight.squawk) THEN SqlValue(flight.squawk) ELSE "",
    timestamp    |-> SqlValue(flight.timestamp),
    source       |-> SqlValue(flight.source) ]

\* upsertFlights(flights) of normalized flights: as upsertFlights, and the
\* first statement of a flight that is not storable throws (the loop is in
\* one transaction, so which of its two statements throws makes no difference)
upsertFetched(d, flights, clock, fault) ==
  LET bad   == { i \in 1..Len(flights) : ~Storable(flights[i]) }
      first == CHOOSE i \in bad : \A j \in bad : i <= j
      at    == IF bad # {} /\ (fault = 0 \/ fault > 2 * first - 1)
               THEN 2 * first - 1 ELSE fault
  IN  upsertFlights(d, [ i \in 1..Len(flights) |-> FlightOf(flights[i]) ], clock, at)

\* records.map(normalize).filter(flight => flight !== null), given what
\* normalize does for each record: a throw of normalize for one record is the
\* throw of the whole expression
MapFilter(results) ==
  IF \E i \in 1..Len(results) : results[i].threw
  THEN Throw("TypeError")
  ELSE ReturnValue(SelectSeq([ i \in 1..Len(results) |-> results[i].val ],
                             LAMBDA flight : flight # JsNull))

\* fetchFromOpenSky(), given the response of the API
fetchFromOpenSky(response, clock) ==
  IF ~response.ok THEN Throw("OpenSky API error")
  ELSE LET states == response.body
       IN  IF ~Truthy(states) \/ states.t # "array" THEN ReturnValue(<<>>)
           ELSE MapFilter([ i \in 1..Len(states.a) |->
                              normalizeOpenSkyFlight(states.a[i], clock) ])

\* fetchFromFaa() with the credentials configured, given the response of the
\* API: data.flights.map of a body without the list throws
fetchFromFaa(response, clock) ==
  IF ~response.ok THEN Throw("FAA API error")
  ELSE LET flights == response.body
       IN  IF flights.t # "array" THEN Throw("TypeError")
           ELSE MapFilter([ i \in 1..Len(flights.a) |->
                              normalizeFaaFlight(flights.a[i], clock) ])

\* fetchFlights(): by config.dataSource
fetchFlights(source, response, clock) ==
  IF source = "opensky" THEN fetchFromOpenSky(response, clock)
  ELSE IF source = "faa" THEN fetchFromFaa(response, clock)
  ELSE Throw("Unknown data source")

\* what one call of updateFlightData leaves behind
TickResult(d, error, escaped, fetched, upserted, prunedFlights) ==
  [ db |-> d, error |-> error, escaped |-> escaped, fetched |-> fetched,
    upserted |-> upserted, prunedFlights |-> prunedFlights, stats |-> getStats(d) ]

\* (mutant) the sweep inside `if (flights.length > 0)`: a tick that fetched
\* no flight does not sweep
updateFlightData_SweepsAfterUpsertOnly(d, source, response, clock, fault) ==
  LET fetched == fetchFlights(source, response, clock)
  IN  IF fetched.threw THEN { TickResult(d, "fetch", FALSE, 0, 0, 0) }
      ELSE
        LET flights == fetched.val
            n       == Len(flights)
            stored  == upsertFetched(d, flights, clock, IF fault <= 2 * n THEN fault ELSE 0)
        IN  IF n = 0 THEN { TickResult(d, "", FALSE, 0, 0, 0) }
            ELSE IF stored.threw THEN { TickResult(stored.db, "storage", FALSE, n, 0, 0) }
            ELSE { IF pruneResult.threw
                   THEN TickResult(pruneResult.db, "storage", FALSE, n, n, 0)
                   ELSE TickResult(pruneResult.db, "", FALSE, n, n,
                                   pruneResult.val.prunedFlights) :
                   pruneResult \in pruneOldData(stored.db, clock, maxFlightAge,
                                                IF fault > 2 * n THEN fault - 2 * n ELSE 0) }

\* (mutant) the sweep in a `finally`: it runs when the fetch has thrown too
updateFlightData_SweepsOnFetchFailure(d, source, response, clock, fault) ==
  LET fetched == fetchFlights(source, response, clock)
  IN  IF fetched.threw
      THEN { TickResult(pruneResult.db, "fetch", FALSE, 0, 0, 0) :
             pruneResult \in pruneOldData(d, clock, maxFlightAge, 0) }
      ELSE
        LET flights == fetched.val
            n       == Len(flights)
            stored  == IF n > 0
                       THEN upsertFetched(d, flights, clock,
                                          IF fault <= 2 * n THEN fault ELSE 0)
                       ELSE [ db |-> d, threw |-> FALSE, val |-> 0 ]
        IN  IF stored.threw THEN { TickResult(stored.db, "storage", FALSE, n, 0, 0) }
            ELSE { IF pruneResult.threw
                   THEN TickResult(pruneResult.db, "storage", FALSE, n, n, 0)
                   ELSE TickResult(pruneResult.db, "", FALSE, n, n,
                                   pruneResult.val.prunedFlights) :
                   pruneResult \in pruneOldData(stored.db, clock, maxFlightAge,
                                                IF fault > 2 * n THEN fault - 2 * n ELSE 0) }

\* (mutant) no try/catch: what throws escapes the function
updateFlightData_NoCatch(d, source, response, clock, fault) ==
  LET fetched == fetchFlights(source, response, clock)
  IN  IF fetched.threw THEN { TickResult(d, "fetch", TRUE, 0, 0, 0) }
      ELSE
        LET flights == fetched.val
            n       == Len(flights)
            stored  == IF n > 0
                       THEN upsertFetched(d, flights, clock,
                                          IF fault <= 2 * n THEN fault ELSE 0)
                       ELSE [ db |-> d, threw |-> FALSE, val |-> 0 ]
        IN  IF stored.threw THEN { TickResult(stored.db, "storage", TRUE, n, 0, 0) }
            ELSE { IF pruneResult.threw
                   THEN TickResult(pruneResult.db, "storage", TRUE, n, n, 0)
                   ELSE TickResult(pruneResult.db, "", FALSE, n, n,
                                   pruneResult.val.prunedFlights) :
                   pruneResult \in pruneOldData(stored.db, clock, maxFlightAge,
                                                IF fault > 2 * n THEN fault - 2 * n ELSE 0) }

\* the rest of updateFlightData once fetchFunc() has settled, in one turn of
\* the event loop: upsertFlights when there are flights, pruneOldData(),
\* getStats(); whatever throws is caught and logged, so nothing escapes the
\* function.  `error` is "" when nothing threw, else what threw; `fetched`
\* is flights.length, `upserted` what upsertFlights returned.  The statements
\* are numbered through the call: 2 for each flight, then the 3 of the
\* sweep.  The outcomes: one per outcome of the sweep.
updateFlightData(d, source, response, clock, fault) ==
  LET fetched == fetchFlights(source, response, clock)
  IN  IF fetched.threw THEN { TickResult(d, "fetch", FALSE, 0, 0, 0) }
      ELSE
        LET flights == fetched.val
            n       == Len(flights)
            stored  == IF n > 0
                       THEN upsertFetched(d, flights, clock,
                                          IF fault <= 2 * n THEN fault ELSE 0)
                       ELSE [ db |-> d, threw |-> FALSE, val |-> 0 ]
        IN  IF stored.threw THEN { TickResult(stored.db, "storage", FALSE, n, 0, 0) }
            ELSE { IF pruneResult.threw
                   THEN TickResult(pruneResult.db, "storage", FALSE, n, n, 0)
                   ELSE TickResult(pruneResult.db, "", FALSE, n, n,
                                   pruneResult.val.prunedFlights) :
                   pruneResult \in pruneOldData(stored.db, clock, maxFlightAge,
                                                IF fault > 2 * n THEN fault - 2 * n ELSE 0) }

\* a second state vector: the test's with another icao24
otherVector == WithElement(stateVector, 0, JsStr(<< "d", "e", "f" >>))

\* a second FAA record: the full one with another aircraftId
otherFaaFlight == WithProp(faaFlight, "aircraftId", JsStr(<< "N", "2" >>))

\* the lists of records an API answers with: none, the empty one, one
\* well-formed record, and that record next to a second aircraft's whose
\* position is null, or which is cut short or lacks its position, or which
\* normalize throws on
Bodies(source) ==
  IF source = "opensky"
  THEN { JsNull,
         JsArray(<<>>),
         JsArray(<< stateVector >>),
         JsArray(<< WithElement(otherVector, 6, JsNull), stateVector >>),
         JsArray(<< Truncated(otherVector, 6), stateVector >>),
         JsArray(<< stateVector, WithElement(otherVector, 1, JsNum(123)) >>) }
  ELSE { JsUndefined,
         JsArray(<<>>),
         JsArray(<< faaFlight >>),
         JsArray(<< Without(otherFaaFlight, { "latitude", "longitude" }), faaFlight >>),
         JsArray(<< faaFlight, JsNull >>) }

\* the responses of the API: a failed exchange (a network error or a status
\* that is not ok), or a body
Responses(source) ==
  { [ ok |-> FALSE ] } \cup { [ ok |-> TRUE, body |-> body ] : body \in Bodies(source) }

\* config.dataSource, for the two adapters
DataSources == { "opensky", "faa" }

----------------------------------------------------------------------------
(* The mock fetcher (createMockFetcher, src/server/faa-fetcher.js).  Its     *)
(* arithmetic is fixed-point: latitude and longitude in 1e-4 degree,        *)
(* sines and cosines in thousandths, headings whole degrees.                *)

\* calls of one fetcher, at most
MaxCalls == 240

\* a % b of JavaScript: the remainder has the sign of a
JsRem(a, b) == IF a >= 0 THEN a % b ELSE -((-a) % b)

\* Math.cos and Math.sin of a heading that is a multiple of 45 degrees
CosHeading(heading) ==
  CASE heading = 0 -> 1000 [] heading = 45 -> 707 [] heading = 90 -> 0
    [] heading = 135 -> -707 [] heading = 180 -> -1000 [] heading = 225 -> -707
    [] heading = 270 -> 0 [] heading = 315 -> 707

SinHeading(heading) == CosHeading(JsRem(heading + 270, 360))

\* Math.cos(latitude * Math.PI / 180), by the whole degree of a latitude
\* between 0 and 90 degrees
CosLatitude(latitude) ==
  << 1000, 1000,  999,  999,  998,  996,  995,  993,  990,  988,
      985,  982,  978,  974,  970,  966,  961,  956,  951,  946,
      940,  934,  927,  921,  914,  906,  899,  891,  883,  875,
      866,  857,  848,  839,  829,  819,  809,  799,  788,  777,
      766,  755,  743,  731,  719,  707,  695,  682,  669,  656,
      643,  629,  616,  602,  588,  574,  559,  545,  530,  515,
      500,  485,  469,  454,  438,  423,  407,  391,  375,  358,
      342,  326,  309,  292,  276,  259,  242,  225,  208,  191,
      174,  156,  139,  122,  105,   87,   70,   52,   35,   17 >>[latitude \div 10000 + 1]

\* the body of the loop of fetchMockFlights for one flight, dt being 10 s:
\* distanceKm = speed * 1.852 * 10 / 3600, a degree being 111 km
advance(flight, clock) ==
  LET latChange == (flight.speed * 463 * CosHeading(flight.heading)) \div 999000
      lonChange == ((flight.speed * 463 * SinHeading(flight.heading)) \div 999)
                     \div CosLatitude(flight.latitude)
      latitude  == flight.latitude + latChange
      longitude == flight.longitude + lonChange
      heading1  == IF latitude < 245000 \/ latitude > 490000
                   THEN 360 - flight.heading ELSE flight.heading
      heading2  == IF longitude < -1240000 \/ longitude > -670000
                   THEN 180 - heading1 ELSE heading1
  IN  [ flight EXCEPT !.latitude  = latitude,
                      !.longitude = longitude,
                      !.altitude  = @ + (flight.verticalRate * 10) \div 60,
                      !.heading   = JsRem(JsRem(heading2, 360) + 360, 360),
                      !.timestamp = clock ]

\* `MOCK${i.toString().padStart(4, '0')}` for the indexes of the model
MockId(i) == "MOCK000" \o ToString(i)

\* a flight as createMockFetcher makes it, for the values Math.random() and
\* Date.now() gave
mockFlight(i, latitude, longitude, heading, clock) ==
  [ id |-> MockId(i), callsign |-> "TST1", latitude |-> latitude,
    longitude |-> longitude, altitude |-> 5000, heading |-> heading,
    speed |-> 599, verticalRate |-> 600, onGround |-> FALSE, squawk |-> "1000",
    timestamp |-> clock, source |-> "mock" ]

\* initial positions and headings: near the edges of the ranges
\* 24.5 + Math.random() * 24 and -124 + Math.random() * 57, and the eight
\* headings that are multiples of 45 degrees
MockLatitudes == { 245100, 484900 }
MockLongitudes == { -1239900, -670100 }
MockHeadings == { 0, 45, 90, 135, 180, 225, 270, 315 }

\* the arrays createMockFetcher(numFlights) may fill, for numFlights 1 and 2
MockFleets(clock) ==
  { << mockFlight(0, latitude, longitude, heading, clock) >> :
      latitude \in MockLatitudes, longitude \in MockLongitudes,
      heading \in MockHeadings }
  \cup { << mockFlight(0, 484900, -670100, heading, clock),
            mockFlight(1, 245100, -1239900, heading, clock) >> :
           heading \in { 0, 90 } }

\* [...flights]: a new array of the same objects, here their indexes in
\* the array of the closure
SpreadOf(flights) == [ i \in 1..Len(flights) |-> i ]

----------------------------------------------------------------------------
(* The client (FlightTracker, src/client/flight-tracker.js).  A Map is a    *)
(* function from its keys; the maps of Cesium entities are the sets of      *)
(* their keys.                                                              *)

\* ClientConfig.maxTrailPoints: 256 as config.maxTrailPoints of the server,
\* scaled with it
ClientMaxTrailPoints == maxTrailPoints

\* map.set(key, value)
MapSet(map, key, value) ==
  [ k \in DOMAIN map \cup { key } |-> IF k = key THEN value ELSE map[k] ]

\* map.delete(key)
MapDelete(map, key) == [ k \in DOMAIN map \ { key } |-> map[k] ]

RECURSIVE Shifted(_, _)
\* while (trail.length > max) trail.shift();
Shifted(trail, max) == IF Len(trail) > max THEN Shifted(Tail(trail), max) ELSE trail

\* updateTrailEntity(flightId): a polyline once the trail has two points
updateTrailEntity(c, flightId) ==
  IF flightId \notin DOMAIN c.trails \/ Len(c.trails[flightId]) < 2 THEN c
  ELSE [ c EXCEPT !.trailEntities = @ \cup { flightId } ]

\* (mutant) updateTrail trimming with trail.pop(): the newest entries go
updateTrail_Pop(c, flightId, position, altitude) ==
  LET trail  == IF flightId \in DOMAIN c.trails THEN c.trails[flightId] ELSE <<>>
      entry  == [ position |-> position, altitude |-> altitude ]
      before == IF flightId \in DOMAIN c.received THEN c.received[flightId] ELSE <<>>
      pushed == Append(trail, entry)
  IN  updateTrailEntity(
        [ c EXCEPT !.trails   = MapSet(@, flightId,
                                       IF Len(pushed) > ClientMaxTrailPoints
                                       THEN SubSeq(pushed, 1, ClientMaxTrailPoints)
                                       ELSE pushed),
                   !.received = MapSet(@, flightId,
                                       Shifted(Append(before, entry),
                                               ClientMaxTrailPoints + 1)) ],
        flightId)

\* updateTrail(flightId, position, altitude); `received` keeps the last
\* ClientMaxTrailPoints + 1 entries it was given for the flight
updateTrail(c, flightId, position, altitude) ==
  LET trail  == IF flightId \in DOMAIN c.trails THEN c.trails[flightId] ELSE <<>>
      entry  == [ position |-> position, altitude |-> altitude ]
      before == IF flightId \in DOMAIN c.received THEN c.received[flightId] ELSE <<>>
  IN  updateTrailEntity(
        [ c EXCEPT !.trails   = MapSet(@, flightId,
                                       Shifted(Append(trail, entry), ClientMaxTrailPoints)),
                   !.received = MapSet(@, flightId,
                                       Shifted(Append(before, entry),
                                               ClientMaxTrailPoints + 1)) ],
        flightId)

\* the positions updateTrail is given: Cartesian3 values, here numbered
Positions == { 1, 2, 3 }

\* Cesium.Cartesian3.fromDegrees(longitude, latitude, altitude * 0.3048):
\* the point of the globe, kept as its coordinates with the height in metres
fromDegrees(longitude, latitude, altitude) ==
  [ longitude |-> longitude, latitude |-> latitude,
    height |-> (altitude * 3048) \div 10000 ]

\* updateFlight(flight): the trail first, then the entity of the flight
updateFlight(c, flight) ==
  LET position == fromDegrees(flight.longitude, flight.latitude, flight.altitude)
      c1       == updateTrail(c, flight.id, position, flight.altitude)
  IN  [ c1 EXCEPT !.entities = @ \cup { flight.id } ]

RECURSIVE updateFlightsOf(_, _)
\* for (const flight of data.flights) this.updateFlight(flight); the ids of
\* a response are distinct, so the order of the loop does not matter
updateFlightsOf(c, flights) ==
  IF flights = {} THEN c
  ELSE LET flight == CHOOSE f \in flights : TRUE
       IN  updateFlightsOf(updateFlight(c, flight), flights \ { flight })

\* removeStaleFlights(currentFlightIds): for every entity whose id is not
\* current, the entity, its polyline and its trail are deleted
removeStaleFlights(c, currentFlightIds) ==
  LET gone == c.entities \ currentFlightIds
  IN  [ c EXCEPT !.entities      = @ \ gone,
                 !.trailEntities = @ \ gone,
                 !.trails        = [ k \in DOMAIN @ \ gone |-> @[k] ],
                 !.received      = [ k \in DOMAIN @ \ gone |-> @[k] ] ]

\* router.get('/flights'): `since` is req.query.since parsed, null when the
\* request has none (0 here); the body of the response
GetFlights(d, since, clock) ==
  [ success   |-> TRUE,
    timestamp |-> clock,
    flights   |-> IF since # 0 THEN getFlightsSince(d, clock, since, maxFlightAge)
                  ELSE getAllFlights(d, clock, maxFlightAge) ]

\* fetchFlights of the client that polls OpenSky directly (part_002), put
\* behind the same response: removeStaleFlights runs after every fetch
FlightTracker_fetchFlights_AlwaysRemoves(c, data, hasSince) ==
  IF ~data.success THEN c
  ELSE removeStaleFlights(
         updateFlightsOf([ c EXCEPT !.lastTimestamp = data.timestamp ], data.flights),
         { f.id : f \in data.flights })

\* fetchFlights() from the response on: hasSince is url.includes('since=')
FlightTracker_fetchFlights(c, data, hasSince) ==
  IF ~data.success THEN c
  ELSE LET c1 == updateFlightsOf([ c EXCEPT !.lastTimestamp = data.timestamp ],
                                 data.flights)
       IN  IF ~hasSince THEN removeStaleFlights(c1, { f.id : f \in data.flights })
           ELSE c1

----------------------------------------------------------------------------
(* The state machine.  `ret` records the last call: its name and, when it   *)
(* returned, its arguments and what it returned; when it threw, only that   *)
(* it threw.  `lastSweep` is a history variable: while no upsert has been   *)
(* attempted since the last pruneOldData that returned, it holds the        *)
(* flight_trails table as that call found it.                               *)

NoSweep == [ done |-> FALSE, before |-> <<>> ]

\* the pipeline before the server has started it: no timer scheduled, no
\* tick begun.  `started` counts the ticks begun, `pending` holds the numbers
\* of the ticks whose fetch has not settled; `failed` is history: how many
\* ticks had begun when a tick first failed, 0 while none has.
NotStarted ==
  [ scheduled |-> FALSE, dataSource |-> "", started |-> 0, pending |-> {},
    failed |-> 0 ]

\* no mock fetcher has been created: `flights` is the array the closure of
\* createMockFetcher holds (the objects themselves), `calls` the number of
\* calls of the fetcher; `earlier` is history: the list the last call but one
\* returned, and the flights as that list held them when it was returned
NotCreated ==
  [ created |-> FALSE, flights |-> <<>>, calls |-> 0,
    earlier |-> [ list |-> <<>>, held |-> <<>> ] ]

\* the client before its page has loaded: the three maps of FlightTracker
\* are empty and lastTimestamp is 0.  `received` is history: for each flight
\* the last maxTrailPoints + 1 entries updateTrail was given, in arrival order
NotLoaded ==
  [ lastTimestamp |-> 0, entities |-> {}, trails |-> << >>, trailEntities |-> {},
    received |-> << >> ]

Init ==
  /\ db = initDatabase
  /\ now = 0
  /\ ret = [ op |-> "initDatabase" ]
  /\ lastSweep = NoSweep
  /\ pipeline = NotStarted
  /\ mock = NotCreated
  /\ client = NotLoaded

\* the statements at which the storage engine may throw in a call that runs
\* n statements: any of them when storage faults are possible, none otherwise
FaultPoints(faults, n) == IF faults THEN 0..n ELSE {0}

\* Date.now() advances
Tick ==
  /\ now < MaxNow
  /\ now' = now + 1
  /\ ret' = [ op |-> "tick" ]
  /\ UNCHANGED <<db, lastSweep, pipeline, mock, client>>

CallUpsertFlight(faults) ==
  \E flight \in TestFlights, fault \in FaultPoints(faults, 2) :
    /\ Len(db.flight_trails) < MaxTrailRows
    /\ LET r == upsertFlight(db, flight, now, fault)
       IN  /\ db' = r.db
           /\ ret' = IF r.threw
                     THEN [ op |-> "upsertFlight", threw |-> TRUE ]
                     ELSE [ op |-> "upsertFlight", threw |-> FALSE, flight |-> flight ]
    /\ lastSweep' = NoSweep
    /\ UNCHANGED <<now, pipeline, mock, client>>

CallUpsertFlights(faults) ==
  \E flights \in Batches :
    \E fault \in FaultPoints(faults, 2 * Len(flights)) :
      /\ Len(db.flight_trails) + Len(flights) <= MaxTrailRows
      /\ LET r == upsertFlights(db, flights, now, fault)
         IN  /\ db' = r.db
             /\ ret' = IF r.threw
                       THEN [ op |-> "upsertFlights", threw |-> TRUE ]
                       ELSE [ op |-> "upsertFlights", threw |-> FALSE,
                              flights |-> flights, val |-> r.val ]
      /\ lastSweep' = NoSweep
      /\ UNCHANGED <<now, pipeline, mock, client>>

CallPruneOldData(faults) ==
  \E maxAge \in MaxAges, fault \in FaultPoints(faults, 3) :
    \E r \in pruneOldData(db, now, maxAge, fault) :
      /\ db' = r.db
      /\ ret' = IF r.threw
                THEN [ op |-> "pruneOldData", threw |-> TRUE ]
                ELSE [ op |-> "pruneOldData", threw |-> FALSE,
                       maxAge |-> maxAge, val |-> r.val ]
      /\ lastSweep' = IF r.threw THEN NoSweep
                      ELSE [ done |-> TRUE, before |-> db.flight_trails ]
      /\ UNCHANGED <<now, pipeline, mock, client>>

CallGetAllFlights ==
  \E maxAge \in MaxAges :
    /\ ret' = [ op |-> "getAllFlights", maxAge |-> maxAge,
                val |-> getAllFlights(db, now, maxAge) ]
    /\ UNCHANGED <<db, now, lastSweep, pipeline, mock, client>>

CallGetFlightsSince ==
  \E timestamp \in Sinces, maxAge \in MaxAges :
    /\ ret' = [ op |-> "getFlightsSince", timestamp |-> timestamp,
                maxAge |-> maxAge,
                val |-> getFlightsSince(db, now, timestamp, maxAge) ]
    /\ UNCHANGED <<db, now, lastSweep, pipeline, mock, client>>

CallGetFlightTrail ==
  \E flightId \in Ids, limit \in Limits :
    \E trail \in getFlightTrail(db, flightId, limit) :
      /\ ret' = [ op |-> "getFlightTrail", flightId |-> flightId, limit |-> limit,
                  val |-> trail ]
      /\ UNCHANGED <<db, now, lastSweep, pipeline, mock, client>>

CallGetAllTrails ==
  \E maxAge \in MaxAges, maxPoints \in Limits :
    \E trails \in getAllTrails(db, now, maxAge, maxPoints) :
      /\ ret' = [ op |-> "getAllTrails", maxAge |-> maxAge,
                  maxPoints |-> maxPoints, val |-> trails ]
      /\ UNCHANGED <<db, now, lastSweep, pipeline, mock, client>>

CallGetStats ==
  /\ ret' = [ op |-> "getStats", val |-> getStats(db) ]
  /\ UNCHANGED <<db, now, lastSweep, pipeline, mock, client>>

\* router.get('/flights/:id'): getAllFlights() with the default maxAge, then
\* find by id; 404 when no flight is found
GetFlightById ==
  \E id \in Ids :
    LET flights == getAllFlights(db, now, maxFlightAge)
        found   == { f \in flights : f.id = id }
    IN  /\ \/ /\ found = {}
              /\ ret' = [ op |-> "GET /flights/:id", id |-> id, status |-> 404 ]
           \/ \E flight \in found :
                ret' = [ op |-> "GET /flights/:id", id |-> id, status |-> 200,
                         flight |-> flight ]
        /\ UNCHANGED <<db, now, lastSweep, pipeline, mock, client>>

\* a call of normalizeFlightData; the store is not involved
CallNormalizeFlightData ==
  \E rawFlight \in RawFlights, source \in Sources :
    LET r == normalizeFlightData(rawFlight, source, now)
    IN  /\ ret' = IF r.threw
                  THEN [ op |-> "normalizeFlightData", threw |-> TRUE,
                         rawFlight |-> rawFlight, source |-> source,
                         error |-> r.error ]
                  ELSE [ op |-> "normalizeFlightData", threw |-> FALSE,
                         rawFlight |-> rawFlight, source |-> source,
                         val |-> r.val ]
        /\ UNCHANGED <<db, now, lastSweep, pipeline, mock, client>>

\* the writing operations under storage faults
Next ==
  \/ Tick
  \/ CallUpsertFlight(TRUE)
  \/ CallUpsertFlights(TRUE)
  \/ CallPruneOldData(TRUE)
  \/ CallGetStats

Spec == Init /\ [][Next]_vars

\* writes that meet no storage fault, and the reads of the API
NextRead ==
  \/ Tick
  \/ CallUpsertFlight(FALSE)
  \/ CallUpsertFlights(FALSE)
  \/ CallPruneOldData(FALSE)
  \/ CallGetAllFlights
  \/ CallGetFlightTrail

SpecRead == Init /\ [][NextRead]_vars

\* writes that meet no storage fault, and the other two queries of the API
NextQuery ==
  \/ Tick
  \/ CallUpsertFlight(FALSE)
  \/ CallUpsertFlights(FALSE)
  \/ CallPruneOldData(FALSE)
  \/ CallGetFlightsSince
  \/ CallGetAllTrails

SpecQuery == Init /\ [][NextQuery]_vars

\* writes that meet no storage fault, and every reading function
NextFrame ==
  \/ Tick
  \/ CallUpsertFlight(FALSE)
  \/ CallUpsertFlights(FALSE)
  \/ CallPruneOldData(FALSE)
  \/ CallGetAllFlights
  \/ CallGetFlightsSince
  \/ CallGetFlightTrail
  \/ CallGetAllTrails
  \/ CallGetStats

SpecFrame == Init /\ [][NextFrame]_vars

\* writes that meet no storage fault, and the lookup of one flight by the API
NextApi ==
  \/ Tick
  \/ CallUpsertFlight(FALSE)
  \/ CallUpsertFlights(FALSE)
  \/ CallPruneOldData(FALSE)
  \/ GetFlightById

SpecApi == Init /\ [][NextApi]_vars

\* the normalizer called at any time
NextNormalize ==
  \/ Tick
  \/ CallNormalizeFlightData

SpecNormalize == Init /\ [][NextNormalize]_vars

\* Date.now() advances while the pipeline runs
Elapse ==
  /\ now < MaxIngestNow
  /\ now' = now + 1
  /\ ret' = [ op |-> "tick" ]
  /\ UNCHANGED <<db, lastSweep, pipeline, mock, client>>

\* a call of updateFlightData up to its `await fetchFunc()`: one more tick
\* has its fetch pending.  Nothing in it looks at the ticks already pending.
BeginTick(p) ==
  [ p EXCEPT !.started = @ + 1, !.pending = @ \cup { p.started + 1 } ]

\* the server starts with ENABLE_SERVER_FETCH: cron.schedule(cronExpression,
\* updateFlightData), then the initial call of updateFlightData()
Boot ==
  /\ ~pipeline.scheduled
  /\ pipeline.started = 0
  /\ \E source \in DataSources :
       pipeline' = BeginTick([ pipeline EXCEPT !.scheduled = TRUE,
                                               !.dataSource = source ])
  /\ ret' = [ op |-> "boot" ]
  /\ UNCHANGED <<db, now, lastSweep, mock, client>>

\* the scheduled task fires: cron calls updateFlightData
TimerFires ==
  /\ pipeline.scheduled
  /\ pipeline.started < MaxTicks
  /\ pipeline' = BeginTick(pipeline)
  /\ ret' = [ op |-> "timer" ]
  /\ UNCHANGED <<db, now, lastSweep, mock, client>>

\* the fetch of a pending tick settles and updateFlightData runs to its end.
\* An exception that escaped the function would be an unhandled rejection,
\* which ends the process and with it the schedule.  The storage engine may
\* throw at the first statement the tick runs (the one that has to take the
\* write lock); `faulted` records whether it did.  (lastSweep follows the
\* direct calls of pruneOldData only.)
FinishTick ==
  \E tick \in pipeline.pending, response \in Responses(pipeline.dataSource) :
    \E fault \in FaultPoints(TRUE, 1) :
      \E r \in updateFlightData(db, pipeline.dataSource, response, now, fault) :
        /\ r.error = "fetch" => fault = 0
        /\ db' = r.db
        /\ ret' = [ op |-> "updateFlightData", tick |-> tick,
                    response |-> response, faulted |-> fault # 0,
                    error |-> r.error, fetched |-> r.fetched,
                    upserted |-> r.upserted, prunedFlights |-> r.prunedFlights ]
        /\ pipeline' = [ pipeline EXCEPT
                           !.scheduled = @ /\ ~r.escaped,
                           !.pending   = @ \ { tick },
                           !.failed    = IF @ = 0 /\ r.error # ""
                                         THEN pipeline.started ELSE @ ]
        /\ lastSweep' = NoSweep
        /\ UNCHANGED <<now, mock, client>>

\* the ingestion pipeline on its own: the clock, the start of the server,
\* the timer, and the ticks finishing in any order
NextIngest ==
  \/ Elapse
  \/ Boot
  \/ TimerFires
  \/ FinishTick

SpecIngest == Init /\ [][NextIngest]_vars

\* createMockFetcher(numFlights)
CreateMockFetcher ==
  /\ ~mock.created
  /\ \E flights \in MockFleets(now) :
       /\ mock' = [ mock EXCEPT !.created = TRUE, !.flights = flights ]
       /\ ret' = [ op |-> "createMockFetcher", numFlights |-> Len(flights) ]
  /\ UNCHANGED <<db, now, lastSweep, pipeline, client>>

\* a call of the fetcher: every object of the array is advanced in place and
\* a copy of the array is returned.  `earlier` keeps the list the call before
\* returned and what that list held then.
CallFetchMockFlights ==
  /\ mock.created
  /\ mock.calls < MaxCalls
  /\ LET flights == [ i \in 1..Len(mock.flights) |-> advance(mock.flights[i], now) ]
     IN  /\ mock' = [ mock EXCEPT
                        !.flights = flights,
                        !.calls   = @ + 1,
                        !.earlier = IF mock.calls = 0 THEN mock.earlier
                                    ELSE [ list |-> SpreadOf(mock.flights), held |-> mock.flights ] ]
         /\ ret' = [ op |-> "fetchMockFlights", val |-> SpreadOf(flights) ]
  /\ UNCHANGED <<db, now, lastSweep, pipeline, client>>

\* a mock fetcher called again and again while the clock advances
NextMock ==
  \/ Tick
  \/ CreateMockFetcher
  \/ CallFetchMockFlights

SpecMock == Init /\ [][NextMock]_vars

\* a call of updateTrail of the client
CallUpdateTrail ==
  \E flightId \in Ids, position \in Positions, altitude \in Altitudes :
    /\ client' = updateTrail(client, flightId, position, altitude)
    /\ ret' = [ op |-> "updateTrail", flightId |-> flightId ]
    /\ UNCHANGED <<db, now, lastSweep, pipeline, mock>>

\* the trails of the client, fed any positions
NextTrail ==
  \/ Tick
  \/ CallUpdateTrail

SpecTrail == Init /\ [][NextTrail]_vars

\* one poll of the client: fetchFlights sends the request, the server answers
\* it and the client processes the answer.  Date.now() is positive, so a
\* timestamp a response carried is never taken for "no poll yet".
Poll ==
  /\ now > 0
  /\ LET since == client.lastTimestamp
         data  == GetFlights(db, since, now)
     IN  /\ client' = FlightTracker_fetchFlights(client, data, since # 0)
         /\ ret' = [ op |-> "GET /flights", since |-> since,
                     timestamp |-> data.timestamp, flights |-> data.flights ]
  /\ UNCHANGED <<db, now, lastSweep, pipeline, mock>>

\* the client polling a server whose store is written and swept
NextClient ==
  \/ Elapse
  \/ CallUpsertFlight(FALSE)
  \/ CallPruneOldData(FALSE)
  \/ Poll

SpecClient == Init /\ [][NextClient]_vars

\* the same with one report time and the sweep that keeps no flight of an
\* earlier instant
NextPolling ==
  \/ Elapse
  \/ CallUpsertFlight(FALSE) /\ ret'.flight.timestamp = 1
  \/ CallPruneOldData(FALSE) /\ ret'.maxAge = 0
  \/ Poll

\* setInterval(() => this.fetchFlights(), pollInterval): the client keeps
\* polling
SpecClientFair == Init /\ [][NextPolling]_vars /\ WF_vars(Poll)

\* flights reported at the same upstream time from different altitudes: their
\* trail points tie in timestamp and can be told apart
ClimbingFlights ==
  { createTestFlight(id, altitude, 1) : id \in Ids, altitude \in { 35000, 36000 } }
    \cup { createTestFlight("T1", 35000, 2) }

\* upsertFlight of a flight that climbs between two reports of equal time
CallUpsertClimbing ==
  \E flight \in ClimbingFlights :
    /\ Len(db.flight_trails) < MaxTrailRows
    /\ LET r == upsertFlight(db, flight, now, 0)
       IN  /\ db' = r.db
           /\ ret' = [ op |-> "upsertFlight", threw |-> FALSE, flight |-> flight ]
    /\ lastSweep' = NoSweep
    /\ UNCHANGED <<now, pipeline, mock, client>>

\* the two reads of trails over trails whose points can tie
NextTrails ==
  \/ Tick
  \/ CallUpsertClimbing
  \/ CallPruneOldData(FALSE)
  \/ CallGetFlightTrail
  \/ CallGetAllTrails

SpecTrails == Init /\ [][NextTrails]_vars

\* pruneOldData called again right after it returned, with the same maxAge;
\* the clock has not advanced.  `first` is what the call before reported.
CallPruneOldDataAgain ==
  /\ ret.op = "pruneOldData"
  /\ ~ret.threw
  /\ \E r \in pruneOldData(db, now, ret.maxAge, 0) :
       /\ db' = r.db
       /\ ret' = [ op |-> "pruneOldData", threw |-> FALSE,
                   maxAge |-> ret.maxAge, val |-> r.val,
                   first |-> IF "first" \in DOMAIN ret THEN ret.first ELSE ret.val ]
       /\ lastSweep' = [ done |-> TRUE, before |-> db.flight_trails ]
  /\ UNCHANGED <<now, pipeline, mock, client>>

\* sweeps, some of them repeated, between upserts
NextSweep ==
  \/ Tick
  \/ CallUpsertFlight(FALSE)
  \/ CallUpsertFlights(FALSE)
  \/ CallPruneOldData(FALSE)
  \/ CallPruneOldDataAgain

SpecSweep == Init /\ [][NextSweep]_vars

----------------------------------------------------------------------------
(* Vocabulary of the properties *)

\* the rows of flights with a given id
RowsOf(d, id) == { r \in d.flights : r.id = id }

\* row r holds what upsert was given in `flight`, stamped with local time t
CarriesValuesOf(r, flight, t) ==
  /\ r.id = flight.id
  /\ r.callsign = flight.callsign
  /\ r.latitude = flight.latitude
  /\ r.longitude = flight.longitude
  /\ r.altitude = flight.altitude
  /\ r.heading = flight.heading
  /\ r.speed = flight.speed
  /\ r.timestamp = flight.timestamp
  /\ r.source = flight.source
  /\ r.updated_at = t

\* the last element of a list that has a given id
LastWithId(flights, id) ==
  LET at == { i \in 1..Len(flights) : flights[i].id = id }
  IN  flights[CHOOSE i \in at : \A j \in at : j <= i]

\* number of trail rows of a flight
TrailCount(tr, id) == Cardinality(TrailPositions(tr, id))

\* number of trail rows of a flight reported at time t or later
TrailCountSince(tr, id, t) ==
  Cardinality({ i \in TrailPositions(tr, id) : tr[i].timestamp >= t })

\* the trail rows of one flight, in rowid order
TrailRowsOf(tr, id) == KeepRows(tr, TrailPositions(tr, id), 1)

\* s is in ascending order of timestamp
Ascending(s) ==
  \A i, j \in 1..Len(s) : i < j => s[i].timestamp <= s[j].timestamp

\* the last step was a call of `op` that returned
Returned(r, op) == r.op = op /\ ~r.threw

\* the last step was a call of `op` that threw
Threw(r, op) == r.op = op /\ r.threw

----------------------------------------------------------------------------
(* C1: the flights table holds at most one row per id; after an upsert      *)
(* (single or batch) that returned, the row of each upserted id carries the *)
(* values of the last upsert of that id, rows of other ids are as they      *)
(* were; a sweep deletes rows and alters none.                              *)
C1_Step ==
  /\ \A id \in Ids : Cardinality(RowsOf(db', id)) <= 1
  /\ Returned(ret', "upsertFlight") =>
       /\ \E r \in db'.flights : RowsOf(db', ret'.flight.id) = {r}
                                 /\ CarriesValuesOf(r, ret'.flight, now)
       /\ \A id \in Ids \ {ret'.flight.id} : RowsOf(db', id) = RowsOf(db, id)
  /\ Returned(ret', "upsertFlights") =>
       \A id \in Ids :
         IF \E i \in 1..Len(ret'.flights) : ret'.flights[i].id = id
         THEN \E r \in db'.flights :
                /\ RowsOf(db', id) = {r}
                /\ CarriesValuesOf(r, LastWithId(ret'.flights, id), now)
         ELSE RowsOf(db', id) = RowsOf(db, id)
  /\ ret'.op = "pruneOldData" => db'.flights \subseteq db.flights

C1_OneRecordPerId == [][C1_Step]_vars

\* an upsert replaced the row of a flight that had been stored with another
\* report time
C1_Witness ==
  /\ Returned(ret, "upsertFlight")
  /\ Cardinality(RowsOf(db, ret.flight.id)) = 1
  /\ \E i \in TrailPositions(db.flight_trails, ret.flight.id) :
       db.flight_trails[i].timestamp # ret.flight.timestamp

(* C2: every upsert that returned appended exactly one trail point for its  *)
(* flight, new or already present: stats().trailPointCount grew by one per  *)
(* upserted element, and the appended rows are the upserted positions.      *)
C2_Step ==
  /\ Returned(ret', "upsertFlight") =>
       /\ getStats(db').trailPointCount = getStats(db).trailPointCount + 1
       /\ TrailCount(db'.flight_trails, ret'.flight.id)
            = TrailCount(db.flight_trails, ret'.flight.id) + 1
  /\ Returned(ret', "upsertFlights") =>
       /\ getStats(db').trailPointCount
            = getStats(db).trailPointCount + Len(ret'.flights)
       /\ \A id \in Ids :
            TrailCount(db'.flight_trails, id)
              = TrailCount(db.flight_trails, id)
                + Cardinality({ i \in 1..Len(ret'.flights) : ret'.flights[i].id = id })

C2_UpsertAppendsOnePoint == [][C2_Step]_vars

\* an upsert of a flight that was already stored returned, with more trail
\* points than flights in the store
C2_Witness ==
  /\ Returned(ret, "upsertFlight")
  /\ getStats(db).flightCount = 1
  /\ getStats(db).trailPointCount >= 3

(* C3, as claimed: in every reachable state no flight has more than         *)
(* maxTrailPoints trail points.                                             *)
C3_CapInEveryState ==
  \A id \in Ids : TrailCount(db.flight_trails, id) <= maxTrailPoints

(* C3, amended: right after a sweep that returned no flight has more than   *)
(* maxTrailPoints trail points, and what the sweep evicted from the trail   *)
(* of a flight it kept are the points of least timestamp: of the points     *)
(* reported at t or later it kept as many as the cap allows, for every t.   *)
(* Between sweeps upserts append without a cap.                             *)
C3_CapAfterSweep ==
  lastSweep.done =>
    \A id \in Ids :
      /\ TrailCount(db.flight_trails, id) <= maxTrailPoints
      /\ id \in FlightIds(db) =>
           \A t \in Timestamps :
             TrailCountSince(db.flight_trails, id, t)
               = Min(maxTrailPoints, TrailCountSince(lastSweep.before, id, t))

\* a sweep evicted a point that was not the first one inserted
C3_Witness ==
  /\ lastSweep.done
  /\ \E id \in FlightIds(db) :
       /\ TrailCount(lastSweep.before, id) > maxTrailPoints
       /\ TrailRowsOf(db.flight_trails, id)
            # Tail(TrailRowsOf(lastSweep.before, id))

(* C4: after a sweep that returned, getFlightTrail(id, N) of a flight the   *)
(* sweep kept, N being the number of its points before the sweep, returns   *)
(* min(N, maxTrailPoints) points in ascending order of timestamp; they are  *)
(* the points of greatest timestamp among the N; and the trail rows of a    *)
(* flight that had at most maxTrailPoints points are as they were.          *)
C4_TrailAfterSweep ==
  ( /\ lastSweep.done
    /\ ret.op = "getFlightTrail"
    /\ ret.flightId \in FlightIds(db)
    /\ ret.limit >= TrailCount(lastSweep.before, ret.flightId) ) =>
    LET id == ret.flightId
        N  == TrailCount(lastSweep.before, id)
    IN  /\ Len(ret.val) = Min(N, maxTrailPoints)
        /\ \A t \in Timestamps :
             Cardinality({ k \in 1..Len(ret.val) : ret.val[k].timestamp >= t })
               = Min(maxTrailPoints, TrailCountSince(lastSweep.before, id, t))
        /\ Ascending(ret.val)
        /\ N <= maxTrailPoints =>
             TrailRowsOf(db.flight_trails, id) = TrailRowsOf(lastSweep.before, id)

\* the trail of a flight that had more points than the cap was read after the
\* sweep and came back with the cap's number of points, of distinct timestamps
C4_Witness ==
  /\ lastSweep.done
  /\ ret.op = "getFlightTrail"
  /\ ret.flightId \in FlightIds(db)
  /\ TrailCount(lastSweep.before, ret.flightId) > maxTrailPoints
  /\ Len(ret.val) = maxTrailPoints
  /\ ret.val[1].timestamp < ret.val[Len(ret.val)].timestamp

(* C5: a call of upsertFlights that threw left the database as it found it: *)
(* no flight row changed and no trail point of the batch was added.         *)
C5_Step ==
  Threw(ret', "upsertFlights") => db' = db

C5_BatchAllOrNothing == [][C5_Step]_vars

\* a batch threw on a store that holds flights
C5_Witness ==
  /\ Threw(ret, "upsertFlights")
  /\ db.flights # {}
  /\ Len(db.flight_trails) >= 2

(* C6, as claimed: a call of upsertFlight that threw left the database as   *)
(* it found it; a flight row is never written without its trail point.      *)
C6_Step ==
  Threw(ret', "upsertFlight") => db' = db

C6_UpsertOneAtomic == [][C6_Step]_vars

(* C7, as claimed: a call of pruneOldData that threw left the database as   *)
(* it found it: no effect of a step before the failing one remains.         *)
C7_Step ==
  Threw(ret', "pruneOldData") => db' = db

C7_SweepAtomic == [][C7_Step]_vars

(* C8: every trail row references a row of flights; a flight that is not in *)
(* flights (one a sweep deleted, for instance) has an empty trail and is in *)
(* no result of getAllFlights.                                              *)
C8_CascadeConsistency ==
  /\ \A i \in 1..Len(db.flight_trails) :
       db.flight_trails[i].flight_id \in FlightIds(db)
  /\ \A id \in Ids \ FlightIds(db) :
       /\ \A limit \in Limits : getFlightTrail(db, id, limit) = { <<>> }
       /\ \A maxAge \in MaxAges :
            \A f \in getAllFlights(db, now, maxAge) : f.id # id

\* a sweep deleted a flight that had trail points and kept another flight
C8_Witness ==
  /\ Returned(ret, "pruneOldData")
  /\ lastSweep.done
  /\ ret.val.prunedFlights >= 1
  /\ db.flights # {}
  /\ \E id \in Ids \ FlightIds(db) : TrailCount(lastSweep.before, id) >= 1

(* C9: a sweep that returned deleted exactly the flight rows whose age      *)
(* (now - updated_at) exceeds maxAge, whatever their upstream timestamp,    *)
(* left the other rows as they were and returned the number of rows it      *)
(* deleted as prunedFlights.                                                *)
C9_Step ==
  Returned(ret', "pruneOldData") =>
    LET stale == { r \in db.flights : now - r.updated_at > ret'.maxAge }
    IN  /\ db'.flights = db.flights \ stale
        /\ ret'.val.prunedFlights = Cardinality(stale)

C9_SweepDeletesStale == [][C9_Step]_vars

\* a sweep deleted one flight and kept a flight of fresh updated_at whose
\* upstream timestamp is the oldest there is
C9_Witness ==
  /\ Returned(ret, "pruneOldData")
  /\ ret.val.prunedFlights = 1
  /\ \E r \in db.flights :
       /\ r.updated_at = now
       /\ r.timestamp = 1
       /\ TrailCount(db.flight_trails, r.id) >= 2

(* C10: getAllFlights(maxAge) returns the stored flights whose age          *)
(* (now - updated_at) is less than maxAge, each with the columns of its     *)
(* row, and no other; the result is a function of the rows' updated_at, the *)
(* clock and maxAge alone.                                                  *)
C10_GetAllFresh ==
  ret.op = "getAllFlights" =>
    /\ { f.id : f \in ret.val }
         = { r.id : r \in { x \in db.flights : now - x.updated_at < ret.maxAge } }
    /\ \A f \in ret.val :
         \E r \in db.flights :
           /\ r.id = f.id
           /\ r.timestamp = f.timestamp
           /\ r.altitude = f.altitude
           /\ r.latitude = f.latitude
           /\ r.longitude = f.longitude
    /\ Cardinality(ret.val) = Cardinality({ f.id : f \in ret.val })

\* getAllFlights returned a flight and left out a stale one whose upstream
\* timestamp is the later of the two
C10_Witness ==
  /\ ret.op = "getAllFlights"
  /\ \E f \in ret.val :
       \E r \in db.flights :
         /\ r.id \notin { g.id : g \in ret.val }
         /\ r.timestamp > f.timestamp

(* C11: getFlightsSince(timestamp, maxAge) returns exactly the flights of   *)
(* getAllFlights(maxAge), read at the same clock, whose upstream report     *)
(* time is strictly greater than the given timestamp; so it is a subset of  *)
(* getAllFlights(maxAge).                                                   *)
C11_SinceIsSubsetOfAll ==
  ret.op = "getFlightsSince" =>
    /\ ret.val \subseteq getAllFlights(db, now, ret.maxAge)
    /\ \A f \in getAllFlights(db, now, ret.maxAge) :
         f \in ret.val <=> f.timestamp > ret.timestamp

\* a call returned one fresh flight and left out another that is fresh too
\* but was reported at exactly the given timestamp
C11_Witness ==
  /\ ret.op = "getFlightsSince"
  /\ ret.val # {}
  /\ \E f \in getAllFlights(db, now, ret.maxAge) :
       f \notin ret.val /\ f.timestamp = ret.timestamp

\* the ids of the flights a read returned
IdsOf(flights) == { f.id : f \in flights }

(* C12: getFlightsSince(t) returns the flights updated since t: a flight    *)
(* that is not stale is in the result exactly when its last upsert into     *)
(* the store happened (updated_at) after time t.                            *)
C12_SinceByLastUpsert ==
  ret.op = "getFlightsSince" =>
    IdsOf(ret.val) =
      { r.id : r \in { x \in db.flights :
                         /\ x.id \in IdsOf(getAllFlights(db, now, ret.maxAge))
                         /\ x.updated_at > ret.timestamp } }

(* C13: getFlightTrail(flightId, limit) returns at most `limit` points;     *)
(* they are points of that flight, those of greatest timestamp (for every   *)
(* time t the result holds as many points reported at t or later as the     *)
(* flight has, up to `limit`); and the result is in ascending order of      *)
(* timestamp, in whatever order the points were inserted.                   *)
C13_TrailNewestAscending ==
  ret.op = "getFlightTrail" =>
    LET tr == db.flight_trails
        id == ret.flightId
    IN  /\ Len(ret.val) <= ret.limit
        /\ Len(ret.val) = Min(ret.limit, TrailCount(tr, id))
        /\ \A k \in 1..Len(ret.val) :
             \E i \in TrailPositions(tr, id) :
               /\ tr[i].timestamp = ret.val[k].timestamp
               /\ tr[i].latitude = ret.val[k].latitude
               /\ tr[i].longitude = ret.val[k].longitude
               /\ tr[i].altitude = ret.val[k].altitude
        /\ \A t \in Timestamps :
             Cardinality({ k \in 1..Len(ret.val) : ret.val[k].timestamp >= t })
               = Min(ret.limit, TrailCountSince(tr, id, t))
        /\ Ascending(ret.val)

\* a trail of more points than the limit, inserted newest first, was read:
\* the result has `limit` points, the oldest of them first
C13_Witness ==
  /\ ret.op = "getFlightTrail"
  /\ TrailCount(db.flight_trails, ret.flightId) > ret.limit
  /\ \E i, j \in TrailPositions(db.flight_trails, ret.flightId) :
       i < j /\ db.flight_trails[i].timestamp > db.flight_trails[j].timestamp
  /\ Len(ret.val) = ret.limit
  /\ ret.val[1].timestamp < ret.val[Len(ret.val)].timestamp

(* C14: getAllTrails(maxAge, maxPoints) has keys only for flights that      *)
(* getAllFlights(maxAge) returns at the same clock; each trail holds at     *)
(* most maxPoints points, all of them points of the key's flight, and is in *)
(* ascending order of timestamp.                                            *)
C14_AllTrailsFreshCappedAscending ==
  ret.op = "getAllTrails" =>
    /\ DOMAIN ret.val \subseteq IdsOf(getAllFlights(db, now, ret.maxAge))
    /\ \A id \in DOMAIN ret.val :
         /\ Len(ret.val[id]) <= ret.maxPoints
         /\ \A k \in 1..Len(ret.val[id]) :
              \E i \in TrailPositions(db.flight_trails, id) :
                db.flight_trails[i].timestamp = ret.val[id][k].timestamp
         /\ Ascending(ret.val[id])

\* a stored flight that has trail points was left out as stale, while the
\* trail of a fresh flight came back with its older point first
C14_Witness ==
  /\ ret.op = "getAllTrails"
  /\ \E id \in FlightIds(db) \ DOMAIN ret.val :
       TrailCount(db.flight_trails, id) > 0
  /\ \E id \in DOMAIN ret.val :
       /\ Len(ret.val[id]) = 2
       /\ ret.val[id][1].timestamp < ret.val[id][2].timestamp

\* the reading functions of database.js
ReadOps == { "getAllFlights", "getFlightsSince", "getFlightTrail",
             "getAllTrails", "getStats" }

(* C15: staleness is a filter of the reads, not a deletion by the writes:   *)
(* an upsert (single or batch) removes no flight row, a read (getAllFlights,*)
(* getFlightsSince, getFlightTrail, getAllTrails, getStats) leaves both     *)
(* tables as they were, and a step after which some stored flight id is     *)
(* gone is a sweep (pruneOldData).                                          *)
C15_Step ==
  /\ ret'.op \in { "upsertFlight", "upsertFlights" } =>
       FlightIds(db) \subseteq FlightIds(db')
  /\ ret'.op \in ReadOps => db' = db
  /\ ~(FlightIds(db) \subseteq FlightIds(db')) => ret'.op = "pruneOldData"

C15_StalenessIsReadTimeFilter == [][C15_Step]_vars

\* an upsert returned and a flight that every maxAge of the model makes stale
\* is still stored, with its trail
C15_Witness ==
  /\ Returned(ret, "upsertFlight")
  /\ \E r \in db.flights :
       /\ r.id # ret.flight.id
       /\ now - r.updated_at >= MaxAge
       /\ r.id \notin IdsOf(getAllFlights(db, now, MaxAge))
       /\ TrailCount(db.flight_trails, r.id) > 0

(* C16: getStats() returns the number of rows of flights and the number of  *)
(* rows of flight_trails in the whole store: every stored flight id counts  *)
(* once and every trail point of every flight counts, those of flights      *)
(* that are stale and not yet swept included.                               *)
C16_StatsRawCounts ==
  ret.op = "getStats" =>
    /\ ret.val.flightCount = Cardinality(FlightIds(db))
    /\ ret.val.trailPointCount =
         Cardinality(UNION { TrailPositions(db.flight_trails, id) : id \in Ids })

\* stats were read while a flight that every maxAge of the model makes stale
\* was stored with trail points, next to a fresh one; both are counted
C16_Witness ==
  /\ ret.op = "getStats"
  /\ ret.val.flightCount = 2
  /\ ret.val.trailPointCount >= 2
  /\ IdsOf(getAllFlights(db, now, MaxAge)) # {}
  /\ \E r \in db.flights :
       /\ r.id \notin IdsOf(getAllFlights(db, now, MaxAge))
       /\ TrailCount(db.flight_trails, r.id) > 0

\* JSON.stringify of a boolean and of an integer
JsonBoolean(b) == IF b THEN "true" ELSE "false"
JsonNumber(n) == ToString(n)

(* C17: round trip: a flight that was upserted and is read back by id at    *)
(* once is found, and every field of the record read (id, callsign,         *)
(* latitude, longitude, altitude, heading, speed, verticalRate, onGround,   *)
(* squawk, timestamp, source) equals the upserted value; the stored         *)
(* updated_at is not less than the time just before the upsert.             *)
C17_Step ==
  ( /\ Returned(ret, "upsertFlight")
    /\ ret'.op = "GET /flights/:id"
    /\ ret'.id = ret.flight.id ) =>
    /\ ret'.status = 200
    /\ ret'.flight.id = ret.flight.id
    /\ ret'.flight.callsign = ret.flight.callsign
    /\ ret'.flight.latitude = ret.flight.latitude
    /\ ret'.flight.longitude = ret.flight.longitude
    /\ ret'.flight.altitude = ret.flight.altitude
    /\ ret'.flight.heading = ret.flight.heading
    /\ ret'.flight.speed = ret.flight.speed
    /\ ret'.flight.verticalRate = ret.flight.verticalRate
    /\ JsonNumber(ret'.flight.onGround) = JsonBoolean(ret.flight.onGround)
    /\ ret'.flight.squawk = ret.flight.squawk
    /\ ret'.flight.timestamp = ret.flight.timestamp
    /\ ret'.flight.source = ret.flight.source
    /\ \A r \in RowsOf(db', ret.flight.id) : r.updated_at >= now

C17_RoundTrip == [][C17_Step]_vars

RECURSIVE EachInOrder(_, _, _)
\* the database after upsertFlight was called, without fault, on each element
\* of L in order
EachInOrder(d, L, clock) ==
  IF L = <<>> THEN d
  ELSE EachInOrder(upsertFlight(d, Head(L), clock, 0).db, Tail(L), clock)

(* C18: a call upsertFlights(L) that met no fault returned the number of    *)
(* elements of L and left the database as calling upsertFlight on each      *)
(* element of L in order leaves it, an id that occurs twice in L included;  *)
(* for the empty list it returned 0 and changed nothing.                    *)
C18_Step ==
  Returned(ret', "upsertFlights") =>
    /\ ret'.val = Len(ret'.flights)
    /\ db' = EachInOrder(db, ret'.flights, now)
    /\ ret'.flights = <<>> => ret'.val = 0 /\ db' = db

C18_BatchIsEachInOrder == [][C18_Step]_vars

\* a batch of two reports of one flight, of different report times, returned 2
\* on a store that held the flight already
C18_Witness ==
  /\ Returned(ret, "upsertFlights")
  /\ ret.val = 2
  /\ ret.flights[1].id = ret.flights[2].id
  /\ ret.flights[1].timestamp # ret.flights[2].timestamp
  /\ TrailCount(db.flight_trails, ret.flights[1].id) = 3

\* the sources normalizeFlightData dispatches on
Recognized == { "opensky", "faa" }

(* C19: normalizeFlightData(rawFlight, source) throws its 'Unknown data     *)
(* source' error for every source other than 'opensky' and 'faa', whatever  *)
(* rawFlight is (null and empty inputs included): it neither returns null   *)
(* nor any other value.                                                     *)
C19_UnknownSourceThrows ==
  ( ret.op = "normalizeFlightData" /\ ret.source \notin Recognized ) =>
    ret.threw /\ ret.error = "Unknown data source"

\* a call with null as rawFlight and a source that is not recognized threw
C19_Witness ==
  /\ Threw(ret, "normalizeFlightData")
  /\ ret.source = "unknown"
  /\ ret.rawFlight = JsNull
  /\ ret.error = "Unknown data source"

\* a value that is there: neither null nor undefined
Present(v) == v.t \notin { "undefined", "null" }

(* C20: for the sources 'opensky' and 'faa' and every rawFlight,            *)
(* normalizeFlightData does not throw, and what it returns is null or a     *)
(* whole record: one that carries an id and both coordinates.               *)
C20_NeverThrowsNeverPartial ==
  ( ret.op = "normalizeFlightData" /\ ret.source \in Recognized ) =>
    /\ ~ret.threw
    /\ ret.val # JsNull =>
         /\ Present(ret.val.id)
         /\ Present(ret.val.latitude)
         /\ Present(ret.val.longitude)

\* rawFlight has the shape the adapter of `source` reads: a state vector for
\* 'opensky', an object for 'faa'
RawRecord(rawFlight, source) ==
  \/ source = "opensky" /\ rawFlight.t = "array"
  \/ source = "faa" /\ rawFlight.t = "object"

\* the identifier and the coordinates of a raw record, where the adapter of
\* `source` looks for them
RawId(rawFlight, source) ==
  IF source = "opensky" THEN Index(rawFlight, 0)
  ELSE IF Present(Prop(rawFlight, "aircraftId")) THEN Prop(rawFlight, "aircraftId")
       ELSE Prop(rawFlight, "icaoId")

RawLatitude(rawFlight, source) ==
  IF source = "opensky" THEN Index(rawFlight, 6)
  ELSE IF Present(Prop(rawFlight, "latitude")) THEN Prop(rawFlight, "latitude")
       ELSE OptionalProp(Prop(rawFlight, "position"), "lat")

RawLongitude(rawFlight, source) ==
  IF source = "opensky" THEN Index(rawFlight, 5)
  ELSE IF Present(Prop(rawFlight, "longitude")) THEN Prop(rawFlight, "longitude")
       ELSE OptionalProp(Prop(rawFlight, "position"), "lon")

(* C21: for every raw record in which the latitude or the longitude is      *)
(* absent, be it null or undefined (a state vector too short to hold it, an *)
(* object without the property), normalizeFlightData returns null.          *)
C21_NoPositionYieldsNull ==
  ( /\ ret.op = "normalizeFlightData"
    /\ ret.source \in Recognized
    /\ RawRecord(ret.rawFlight, ret.source)
    /\ \/ ~Present(RawLatitude(ret.rawFlight, ret.source))
       \/ ~Present(RawLongitude(ret.rawFlight, ret.source)) ) =>
    ~ret.threw /\ ret.val = JsNull

(* C22: for every raw record whose identifier is present (not falsy) and    *)
(* whose latitude and longitude are both present, a coordinate of exactly 0 *)
(* included, normalizeFlightData returns a flight, not null, whose id is    *)
(* the raw identifier and whose latitude and longitude are the raw          *)
(* coordinates.                                                             *)
C22_PositionedRecordYieldsFlight ==
  ( /\ ret.op = "normalizeFlightData"
    /\ ret.source \in Recognized
    /\ RawRecord(ret.rawFlight, ret.source)
    /\ Truthy(RawId(ret.rawFlight, ret.source))
    /\ Present(RawLatitude(ret.rawFlight, ret.source))
    /\ Present(RawLongitude(ret.rawFlight, ret.source)) ) =>
    /\ ~ret.threw
    /\ ret.val # JsNull
    /\ ret.val.id = RawId(ret.rawFlight, ret.source)
    /\ ret.val.latitude = RawLatitude(ret.rawFlight, ret.source)
    /\ ret.val.longitude = RawLongitude(ret.rawFlight, ret.source)

\* a call of normalizeFlightData for the OpenSky adapter returned a flight
OpenSkyFlightReturned(r) ==
  /\ Returned(r, "normalizeFlightData")
  /\ r.source = "opensky"
  /\ r.val # JsNull

(* C23: the altitude of a flight normalized from a state vector comes from  *)
(* the barometric reading whenever that reading is present, a reading of 0  *)
(* included; from the geometric reading only when the barometric one is     *)
(* absent; and is the default 0 only when both are absent.                  *)
C23_AltitudeFallbackOrder ==
  OpenSkyFlightReturned(ret) =>
    LET baro == Index(ret.rawFlight, 7)
        geo  == Index(ret.rawFlight, 13)
    IN  ret.val.altitude =
          IF Present(baro) THEN MathRoundOf(baro, 328084, 100000)
          ELSE IF Present(geo) THEN MathRoundOf(geo, 328084, 100000)
          ELSE JsNum(0)

\* the callsign of a raw record, where the adapter of `source` looks for it
RawCallsign(rawFlight, source) ==
  IF source = "opensky" THEN Index(rawFlight, 1)
  ELSE IF Present(Prop(rawFlight, "callsign")) THEN Prop(rawFlight, "callsign")
       ELSE Prop(rawFlight, "flightId")

(* C24: the callsign of a normalized flight is the callsign of the raw      *)
(* record without the white space around it; it is the flight's id when the *)
(* raw callsign is absent, empty or white space only; it is never empty.    *)
C24_CallsignTrimmedOrId ==
  ( /\ Returned(ret, "normalizeFlightData")
    /\ ret.source \in Recognized
    /\ ret.val # JsNull ) =>
    LET raw == RawCallsign(ret.rawFlight, ret.source)
    IN  /\ ret.val.callsign =
             IF raw.t = "string" /\ Trim(raw.s) # <<>>
             THEN JsStr(Trim(raw.s))
             ELSE ret.val.id
        /\ Truthy(ret.val.callsign)

\* r is n * num / den rounded to the nearest integer (a half goes up):
\* r - 1/2 <= n * num / den < r + 1/2
IsRounded(r, n, num, den) ==
  /\ 2 * r * den - den <= 2 * n * num
  /\ 2 * n * num < 2 * r * den + den

(* C25: for the OpenSky adapter the altitude is the altitude reading in     *)
(* metres times 3.28084 (82021/25000), the speed the velocity in m/s times  *)
(* 1.944 (243/125) and the vertical rate the rate in m/s times 196.85       *)
(* (3937/20), each rounded to the nearest integer: 10000 m give 32808 ft,   *)
(* 250 m/s give 486 kt, 5000 m give 16404 ft; a velocity or a vertical rate *)
(* that is absent gives 0.                                                  *)
C25_UnitConversions ==
  OpenSkyFlightReturned(ret) =>
    LET baro         == Index(ret.rawFlight, 7)
        geo          == Index(ret.rawFlight, 13)
        velocity     == Index(ret.rawFlight, 9)
        verticalRate == Index(ret.rawFlight, 11)
    IN  /\ Truthy(baro) => IsRounded(ret.val.altitude.n, baro.n, 82021, 25000)
        /\ ~Present(baro) /\ Present(geo) =>
             IsRounded(ret.val.altitude.n, geo.n, 82021, 25000)
        /\ baro = JsNum(10000) => ret.val.altitude = JsNum(32808)
        /\ ~Present(baro) /\ geo = JsNum(5000) => ret.val.altitude = JsNum(16404)
        /\ IF Present(velocity)
           THEN IsRounded(ret.val.speed.n, velocity.n, 243, 125)
           ELSE ret.val.speed = JsNum(0)
        /\ velocity = JsNum(250) => ret.val.speed = JsNum(486)
        /\ IF Present(verticalRate)
           THEN IsRounded(ret.val.verticalRate.n, verticalRate.n, 3937, 20)
           ELSE ret.val.verticalRate = JsNum(0)

\* a vector with 10000 m, 250 m/s and a descent of 5 m/s was normalized
C25_Witness ==
  /\ OpenSkyFlightReturned(ret)
  /\ Index(ret.rawFlight, 7) = JsNum(10000)
  /\ Index(ret.rawFlight, 9) = JsNum(250)
  /\ Index(ret.rawFlight, 11) = JsNum(-5)
  /\ ret.val.altitude = JsNum(32808)
  /\ ret.val.speed = JsNum(486)
  /\ ret.val.verticalRate = JsNum(-984)


----------------------------------------------------------------------------
(* The ingestion pipeline *)

\* the state is the one a call of updateFlightData has just left
TickFinished(r) == r.op = "updateFlightData"

\* the flights the fetch of the tick recorded in r handed to the store
Survivors(r) == fetchFlights(pipeline.dataSource, r.response, now).val

\* C26: a tick fetches, then upserts the survivors as one batch, then sweeps,
\* in one turn of the event loop, so the state a tick leaves when nothing
\* threw is a swept one: every survivor is stored as upserted at that ms,
\* every flight has at most maxTrailPoints trail points, and no flight last
\* upserted before now - maxFlightAge remains; also when the fetch returned
\* no flight.
C26_TickLeavesStoreSwept ==
  (TickFinished(ret) /\ ret.error = "") =>
    /\ ret.upserted = ret.fetched
    /\ ret.fetched = Len(Survivors(ret))
    /\ \A i \in 1..Len(Survivors(ret)) :
         \E r \in db.flights : /\ r.id = SqlValue(Survivors(ret)[i].id)
                               /\ r.updated_at = now
    /\ \A id \in FlightIds(db) \cup TrailFlightIds(db.flight_trails) :
         TrailCount(db.flight_trails, id) <= maxTrailPoints
    /\ \A r \in db.flights : r.updated_at >= now - maxFlightAge

\* a tick that fetched no flight has swept a stale flight away
C26_Witness ==
  /\ TickFinished(ret)
  /\ ret.error = ""
  /\ ret.fetched = 0
  /\ ret.prunedFlights > 0


\* the step is the end of a tick: its fetch was pending and no longer is
TickEnds ==
  /\ TickFinished(ret')
  /\ ret'.tick \in pipeline.pending
  /\ ret'.tick \notin pipeline'.pending

\* C27: a tick whose fetch fails, or in which the normalization of the
\* fetched batch throws, leaves the store exactly as it was: no flight and
\* no trail point is added, changed or removed by it.
C27_Step == (TickEnds /\ ret'.error = "fetch") => db' = db

C27_FailedFetchLeavesStore == [][C27_Step]_vars

\* the API answered, the normalization of the batch threw, and the store
\* holds a flight the sweep would have deleted
C27_Witness ==
  /\ TickFinished(ret)
  /\ ret.error = "fetch"
  /\ ret.response.ok
  /\ \E r \in db.flights : r.updated_at < now - maxFlightAge

\* C28: a tick that fails, on the upstream fetch or on the store, does not
\* stop the pipeline: the task stays scheduled, the timer still fires, and a
\* tick begun after the failure runs to its end.
C28_FailureKeepsSchedule ==
  pipeline.failed > 0 =>
    /\ pipeline.scheduled
    /\ pipeline.started < MaxTicks => ENABLED TimerFires
    /\ pipeline.pending # {} => ENABLED FinishTick

\* a tick begun after a tick had failed has upserted a flight and swept
C28_Witness ==
  /\ pipeline.failed > 0
  /\ TickFinished(ret)
  /\ ret.tick > pipeline.failed
  /\ ret.error = ""
  /\ ret.upserted > 0


\* a record the adapter of `source` makes a storable flight of, on its own
WellFormed(rawFlight, source) ==
  LET r == normalizeFlightData(rawFlight, source, now)
  IN  ~r.threw /\ r.val # JsNull /\ Storable(r.val)

\* the flight the adapter makes of a well-formed record is stored as
\* upserted at the present ms
UpsertedNow(rawFlight, source) ==
  \E r \in db.flights :
    /\ r.id = SqlValue(normalizeFlightData(rawFlight, source, now).val.id)
    /\ r.updated_at = now

\* C29: a malformed or positionless record never aborts its batch: when the
\* API has answered with a list of records and the storage engine has not
\* failed, every well-formed record of the list is upserted in that tick,
\* whatever the other records of the list are.
C29_MalformedRecordIsSkipped ==
  ( /\ TickFinished(ret)
    /\ ret.response.ok
    /\ ret.response.body.t = "array"
    /\ ~ret.faulted ) =>
    \A i \in 1..Len(ret.response.body.a) :
      WellFormed(ret.response.body.a[i], pipeline.dataSource) =>
        UpsertedNow(ret.response.body.a[i], pipeline.dataSource)


\* C30: ticks never overlap: at most one call of updateFlightData is in
\* flight at any time (the timer firing while a fetch is pending, or while
\* the initial call is, starts no second tick), and a tick that ends has not
\* been overtaken by a tick begun after it.
C30_TicksNeverOverlap ==
  /\ Cardinality(pipeline.pending) <= 1
  /\ TickFinished(ret) =>
       \A later \in (ret.tick + 1)..pipeline.started : later \in pipeline.pending


----------------------------------------------------------------------------
(* Upserts and sweeps together *)

\* the call recorded in r is an upsert, single or batch, that returned
UpsertReturned(r) == Returned(r, "upsertFlight") \/ Returned(r, "upsertFlights")

\* the invariants of the sweep: the cap on every trail, and no trail point
\* of a flight that is not stored
SweepInvariants(d) ==
  /\ \A id \in Ids : TrailCount(d.flight_trails, id) <= maxTrailPoints
  /\ \A i \in 1..Len(d.flight_trails) : d.flight_trails[i].flight_id \in FlightIds(d)

\* C31: an upsert (single or batch) and a sweep that run one right after the
\* other, in either order (the calls are synchronous, so the two orders are
\* the interleavings one process has), leave the invariants of the sweep
\* holding once both have returned.
C31_Step ==
  ( \/ UpsertReturned(ret) /\ Returned(ret', "pruneOldData")
    \/ Returned(ret, "pruneOldData") /\ UpsertReturned(ret') ) =>
    SweepInvariants(db')

C31_UpsertAndSweepInAnyOrder == [][C31_Step]_vars


----------------------------------------------------------------------------
(* The mock fetcher *)

\* the flights a list holds now: its elements are the objects of the fetcher
Contents(list) == [ i \in 1..Len(list) |-> mock.flights[list[i]] ]

\* C32: every flight a call of the mock fetcher returns, after any number
\* of calls, has its latitude in [20, 55] and its longitude in [-130, -60]
\* (a flight that crosses the edge of the box of the fetcher is turned back),
\* and its heading in [0, 360).
C32_MockStaysInBounds ==
  ret.op = "fetchMockFlights" =>
    \A i \in 1..Len(ret.val) :
      LET flight == Contents(ret.val)[i]
      IN  /\ 200000 <= flight.latitude /\ flight.latitude <= 550000
          /\ -1300000 <= flight.longitude /\ flight.longitude <= -600000
          /\ 0 <= flight.heading /\ flight.heading < 360


----------------------------------------------------------------------------
(* The client *)

\* the last n elements of s, all of s when it has fewer
LastN(s, n) == IF Len(s) <= n THEN s ELSE SubSeq(s, Len(s) - n + 1, Len(s))

\* C33: after any sequence of calls of updateTrail the trail the client keeps
\* for a flight holds at most maxTrailPoints entries, and they are the
\* entries received last for that flight, in the order they arrived (the
\* oldest is dropped first).
C33_ClientTrailIsLastReceived ==
  \A flightId \in DOMAIN client.trails :
    /\ Len(client.trails[flightId]) <= ClientMaxTrailPoints
    /\ client.trails[flightId] = LastN(client.received[flightId], ClientMaxTrailPoints)

\* a full trail has dropped an entry that differs from the one now oldest
C33_Witness ==
  /\ ret.op = "updateTrail"
  /\ Len(client.received[ret.flightId]) = ClientMaxTrailPoints + 1
  /\ client.received[ret.flightId][1] # client.received[ret.flightId][2]
  /\ Len(client.trails[ret.flightId]) = ClientMaxTrailPoints


\* C34: the sweep and the read agree on staleness: when getAllFlights(maxAge)
\* is called right after pruneOldData(maxAge) returned, with the same maxAge
\* and the clock not advanced, it returns every flight the sweep kept, so the
\* number of flights it returns is the flightCount of getStats.
C34_Step ==
  ( /\ Returned(ret, "pruneOldData")
    /\ ret'.op = "getAllFlights"
    /\ ret'.maxAge = ret.maxAge )
  => /\ Cardinality(ret'.val) = getStats(db').flightCount
     /\ { f.id : f \in ret'.val } = FlightIds(db')

C34_SweepAndReadAgree == [][C34_Step]_vars


\* the columns a trail point shares with the flight row
PointOf(r) ==
  [ latitude |-> r.latitude, longitude |-> r.longitude,
    altitude |-> r.altitude, timestamp |-> r.timestamp ]

\* C35: the current state is the head of its trail: whenever getFlightTrail
\* (limit >= 1) returns the trail of a stored flight, its last point has the
\* latitude, longitude, altitude and timestamp of the flight's row, also when
\* upserts arrived with timestamps that do not increase.
C35_CurrentStateIsTrailHead ==
  ( /\ ret.op = "getFlightTrail"
    /\ ret.flightId \in FlightIds(db) )
  => /\ ret.val # <<>>
     /\ \A r \in db.flights :
          r.id = ret.flightId => ret.val[Len(ret.val)] = PointOf(r)


\* C36: a client that polls with `since` equal to the timestamp of the
\* previous response misses no update: every flight upserted at or after the
\* instant the previous response was generated (and not stale now) is among
\* the flights of the next response.
C36_PollMissesNoUpdate ==
  ( ret.op = "GET /flights" /\ ret.since # 0 )
  => \A r \in db.flights :
       ( r.updated_at >= ret.since /\ r.updated_at > now - maxFlightAge )
       => r.id \in { f.id : f \in ret.flights }


\* C37: getAllTrails agrees with getFlightTrail: the keys of
\* getAllTrails(maxAge, n) are the flights that are not stale and have a
\* trail point, and when getFlightTrail(f, n) is called next for one of its
\* keys f, it returns the sequence of points getAllTrails gave for f.
C37_Step ==
  /\ ret'.op = "getAllTrails" =>
       DOMAIN ret'.val =
         { id \in IdsOf(getAllFlights(db', now', ret'.maxAge)) :
             TrailCount(db'.flight_trails, id) >= 1 }
  /\ ( /\ ret.op = "getAllTrails"
       /\ ret'.op = "getFlightTrail"
       /\ ret'.limit = ret.maxPoints
       /\ ret'.flightId \in DOMAIN ret.val )
     => ret'.val = ret.val[ret'.flightId]

C38_Step ==
  ( /\ Returned(ret, "pruneOldData")
    /\ Returned(ret', "pruneOldData")
    /\ ret'.maxAge = ret.maxAge )
  => /\ db' = db
     /\ ret'.val.prunedFlights = 0

C38_SweepIsIdempotent == [][C38_Step]_vars

\* a sweep that deleted a flight and trimmed or emptied trails, leaving
\* flights in the store, has been run again
C38_Witness ==
  /\ Returned(ret, "pruneOldData")
  /\ "first" \in DOMAIN ret
  /\ ret.first.prunedFlights > 0
  /\ db.flights # {}
  /\ lastSweep.before = db.flight_trails


\* C39: in the client that polls the server, a flight the server has stopped
\* returning (its row was pruned) is eventually removed from the entities,
\* trails and trailEntities of the client, unless the server stores it again.
C39_GoneFlightIsRemoved ==
  \A id \in Ids :
    ( id \in client.entities /\ id \notin FlightIds(db) )
      ~> ( \/ id \in FlightIds(db)
           \/ /\ id \notin client.entities
              /\ id \notin DOMAIN client.trails
              /\ id \notin client.trailEntities )


\* C40: the lists the mock fetcher returns are independent of later calls:
\* the list returned by the call before the latest one still holds the
\* positions and timestamps it held when it was returned; every call returns
\* numFlights flights, and the ids are the same at every call.
C40_MockSnapshotsAreIndependent ==
  ( ret.op = "fetchMockFlights" /\ mock.calls >= 2 )
  => /\ Contents(mock.earlier.list) = mock.earlier.held
     /\ Len(ret.val) = Len(mock.earlier.list)
     /\ { Contents(ret.val)[i].id : i \in 1..Len(ret.val) }
          = { mock.earlier.held[i].id : i \in 1..Len(mock.earlier.held) }

====
